---------------------------- MODULE Spec2Model ----------------------------
(***************************************************************************)
(* Model of the data-center chatbot: the RAG pipeline of chatbot/ (literal *)
(* SQL detection, LLM access, vector store, conversation handling) and the *)
(* rule-based DataCenterChatbot of app.py.                                 *)
(*                                                                         *)
(* Python strings are modelled as sequences of one-character strings, so   *)
(* that substring tests, lower-casing, trimming and splitting are computed *)
(* character by character as the code computes them.  The grave accent of  *)
(* markdown code fences is written "backtick".                             *)
(***************************************************************************)
EXTENDS Integers, Sequences, FiniteSets, TLC

VARIABLES
  sqlText,     \* argument of RAGEngine.is_sql_query
  sqlResult,   \* its return value
  pcSql,       \* "input" before the call, "done" after it
  backend,     \* outcomes of the successive HTTP POSTs to the completion API
  maxRetries,  \* argument max_retries of generate_with_retries
  llmOp,       \* the LLMManager method that ran, "none" before the call
  llmOut,      \* what it did: raised, value, calls (POSTs made), sleeps
  vsDocs,      \* documents of the in-memory FAISS store, in insertion order
  vsDisk,      \* the index directory: absent, ok (with its documents), corrupt
  vsOut,       \* the last EmbeddingManager operation and its outcome
  dbRows,      \* number of rows of the table data_centers
  question,    \* the text of the last request, as the user sent it
  front,       \* who served it: "conv" (Conversation) or "app" (Flask chat)
  reply,       \* what the request returned
  trace,       \* the collaborator calls made while serving it, in order
  convHistory, \* Conversation.conversation_history
  sessHistory, \* session['chat_history'] of the Flask application
  pcChat,      \* "ready" before the request is served, "done" after it
  turn,        \* number of requests served so far
  writers      \* concurrent callers of add_texts_to_vector_store: whether
               \* they share the in-memory store, and for each one its
               \* position, the store it sees and the texts it adds

varsSql == <<sqlText, sqlResult, pcSql>>
varsLLM == <<backend, maxRetries, llmOp, llmOut>>
varsVec == <<vsDocs, vsDisk, vsOut>>
varsChat == <<dbRows, question, front, reply, trace, convHistory, sessHistory,
              pcChat, turn>>
vars == <<sqlText, sqlResult, pcSql, backend, maxRetries, llmOp, llmOut,
          vsDocs, vsDisk, vsOut, dbRows, question, front, reply, trace,
          convHistory, sessHistory, pcChat, turn, writers>>

varsNotSql == <<varsLLM, varsVec, varsChat, writers>>
varsNotLLM == <<varsSql, varsVec, varsChat, writers>>
varsNotVec == <<varsSql, varsLLM, varsChat, writers>>

---------------------------------------------------------------------------
(* Python str operations                                                   *)

UpperLetters == <<"A","B","C","D","E","F","G","H","I","J","K","L","M","N","O","P","Q","R","S","T","U","V","W","X","Y","Z">>
LowerLetters == <<"a","b","c","d","e","f","g","h","i","j","k","l","m","n","o","p","q","r","s","t","u","v","w","x","y","z">>

\* the lower-case letter of each upper-case letter
LowerOf ==
  [c \in {UpperLetters[i] : i \in 1..26} |->
     LowerLetters[CHOOSE i \in 1..26 : UpperLetters[i] = c]]

\* str.lower() on one character
LowerChar(c) == IF c \in DOMAIN LowerOf THEN LowerOf[c] ELSE c

\* str.lower()
Lower(s) == [i \in 1..Len(s) |-> LowerChar(s[i])]

\* characters matched by \s and removed by str.strip() / str.split()
Whitespace == {" ", "\t", "\n", "\r", "\f"}

\* sub occurs in s at index i (1-based)
OccursAt(s, sub, i) == \A j \in 1..Len(sub) : s[i + j - 1] = sub[j]

\* the test (sub in s)
Contains(s, sub) == \E i \in 1..(Len(s) - Len(sub) + 1) : OccursAt(s, sub, i)

\* s.startswith(prefix)
StartsWith(s, prefix) == Len(prefix) <= Len(s) /\ OccursAt(s, prefix, 1)

\* s.find(sub): 1-based index of the first occurrence, 0 when absent
Find(s, sub) ==
  IF Contains(s, sub)
  THEN CHOOSE i \in 1..(Len(s) - Len(sub) + 1) :
         /\ OccursAt(s, sub, i)
         /\ \A j \in 1..(i - 1) : ~OccursAt(s, sub, j)
  ELSE 0

\* s.lstrip()
RECURSIVE LStrip(_)
LStrip(s) ==
  IF s # << >> /\ Head(s) \in Whitespace THEN LStrip(Tail(s)) ELSE s

\* s.rstrip()
RECURSIVE RStrip(_)
RStrip(s) ==
  IF s # << >> /\ s[Len(s)] \in Whitespace
  THEN RStrip(SubSeq(s, 1, Len(s) - 1))
  ELSE s

\* s.strip()
Strip(s) == RStrip(LStrip(s))

\* len(s.split()): the number of maximal runs of non-whitespace characters
SplitCount(s) ==
  Cardinality({i \in 1..Len(s) :
                 /\ s[i] \notin Whitespace
                 /\ (i = 1 \/ s[i - 1] \in Whitespace)})

\* concatenation of a sequence of strings
RECURSIVE Concat(_)
Concat(ss) == IF ss = << >> THEN << >> ELSE Head(ss) \o Concat(Tail(ss))

\* all sequences of at most n elements of S
SeqsUpTo(S, n) == UNION {[1..k -> S] : k \in 0..n}

---------------------------------------------------------------------------
(* RAGEngine.is_sql_query (chatbot/rag.py)                                 *)

sql_keywords ==
  << <<"s","e","l","e","c","t">>, <<"f","r","o","m">>, <<"w","h","e","r","e">>, <<"j","o","i","n">>, <<"g","r","o","u","p"," ","b","y">>, <<"o","r","d","e","r"," ","b","y">>, <<"l","i","m","i","t">> >>

\* re.search(r'^\s*select', text_lower)
ReLeadingSelect(text_lower) == StartsWith(LStrip(text_lower), <<"s","e","l","e","c","t">>)

\* sum(1 for keyword in sql_keywords if keyword in text_lower)
RECURSIVE keyword_count(_, _)
keyword_count(text_lower, i) ==
  IF i > Len(sql_keywords) THEN 0
  ELSE (IF Contains(text_lower, sql_keywords[i]) THEN 1 ELSE 0)
       + keyword_count(text_lower, i + 1)

\* the same function without the lower-casing of line 71
is_sql_query_nolower(text) ==
  IF ReLeadingSelect(text) /\ Contains(text, <<"f","r","o","m">>)
  THEN TRUE
  ELSE keyword_count(text, 1) >= 2

is_sql_query(text) ==
  LET text_lower == Lower(text) IN
  IF ReLeadingSelect(text_lower) /\ Contains(text_lower, <<"f","r","o","m">>)
  THEN TRUE
  ELSE keyword_count(text_lower, 1) >= 2

\* fragments the texts given to is_sql_query are built from
SqlFrags ==
  { <<"s","e","l","e","c","t">>, <<"S","e","l","e","c","t">>, <<"f","r","o","m">>, <<"w","h","e","r","e">>, <<"g","r","o","u","p">>, <<"b","y">>, <<"l","i","m","i","t">>,
    <<" ">>, <<"\n">>, <<"x">> }

MaxSqlFrags == 4

SqlTexts == {Concat(fs) : fs \in SeqsUpTo(SqlFrags, MaxSqlFrags)}

InitSql ==
  /\ sqlText \in SqlTexts
  /\ sqlResult = FALSE
  /\ pcSql = "input"

\* the detector is not in use
IdleSql ==
  /\ sqlText = << >>
  /\ sqlResult = FALSE
  /\ pcSql = "idle"

IsSqlQueryCall ==
  /\ pcSql = "input"
  /\ sqlResult' = is_sql_query(sqlText)
  /\ pcSql' = "done"
  /\ UNCHANGED sqlText
  /\ UNCHANGED varsNotSql

NextSql == IsSqlQueryCall

---------------------------------------------------------------------------
(* LLMManager (chatbot/llm.py)                                             *)

\* Python's None, distinct from every string (strings hold single characters)
PyNone == <<"None">>

\* What one POST to the completion API can do:
\*   ok         status 200, body {"response": <body>}
\*   status     a status other than 200
\*   transport  requests.post raises requests.RequestException
\*   badjson    status 200, response.json() raises
\*   nonobject  status 200, the JSON body is not an object (no .get)
\*   nonstring  status 200, "response" is not a string (no .strip)
\*   missing    status 200, a JSON object without the key "response"
FailureKinds == {"status", "transport", "badjson", "nonobject", "nonstring"}
HttpKinds == FailureKinds \cup {"ok", "missing"}

\* the exception raised inside the try block of generate, "none" when the
\* block runs to its return statement
generate_exception(http) ==
  CASE http.kind = "transport" -> "RequestException"
    [] http.kind = "badjson"   -> "JSONDecodeError"
    [] http.kind = "nonobject" -> "AttributeError"
    [] http.kind = "nonstring" -> "AttributeError"
    [] OTHER                   -> "none"

\* str(e) of that exception
ExceptionText(http) ==
  CASE http.kind = "transport" -> <<"c","o","n","n","e","c","t","i","o","n"," ","r","e","f","u","s","e","d">>
    [] http.kind = "badjson"   -> <<"E","x","p","e","c","t","i","n","g"," ","v","a","l","u","e">>
    [] http.kind = "nonobject" -> <<"'","l","i","s","t","'"," ","o","b","j","e","c","t"," ","h","a","s"," ","n","o"," ","a","t","t","r","i","b","u","t","e"," ","'","g","e","t","'">>
    [] http.kind = "nonstring" -> <<"'","i","n","t","'"," ","o","b","j","e","c","t"," ","h","a","s"," ","n","o"," ","a","t","t","r","i","b","u","t","e"," ","'","s","t","r","i","p","'">>
    [] OTHER                   -> << >>

\* generate whose last handler lets the exception go instead of returning
generate_reraise(http) ==
  IF http.kind = "status"
  THEN [raised |-> FALSE,
        value |-> <<"E","r","r","o","r",":"," ","F","a","i","l","e","d"," ","t","o"," ","g","e","n","e","r","a","t","e"," ","r","e","s","p","o","n","s","e"," ","(","s","t","a","t","u","s"," ","c","o","d","e"," ","5","0","0",")">>]
  ELSE IF generate_exception(http) = "none"
  THEN [raised |-> FALSE,
        value |-> Strip(IF http.kind = "ok" THEN http.body ELSE << >>)]
  ELSE IF generate_exception(http) = "RequestException"
  THEN [raised |-> FALSE, value |-> <<"E","r","r","o","r",":"," ">> \o ExceptionText(http)]
  ELSE [raised |-> TRUE, value |-> PyNone]

\* LLMManager.generate for the POST outcome http: the returned string, and
\* whether an exception leaves the method
generate(http) ==
  IF http.kind = "status"
  THEN [raised |-> FALSE,
        value |-> <<"E","r","r","o","r",":"," ","F","a","i","l","e","d"," ","t","o"," ","g","e","n","e","r","a","t","e"," ","r","e","s","p","o","n","s","e"," ","(","s","t","a","t","u","s"," ","c","o","d","e"," ","5","0","0",")">>]
  ELSE IF generate_exception(http) = "none"
  THEN \* response_data.get("response", "").strip()
       [raised |-> FALSE,
        value |-> Strip(IF http.kind = "ok" THEN http.body ELSE << >>)]
  ELSE IF generate_exception(http) = "RequestException"
  THEN [raised |-> FALSE, value |-> <<"E","r","r","o","r",":"," ">> \o ExceptionText(http)]
  ELSE \* except Exception
       [raised |-> FALSE, value |-> <<"E","r","r","o","r",":"," ">> \o ExceptionText(http)]

\* the fixed text returned when every attempt has raised
Apology(max_retries) ==
  <<"I","'","m"," ","s","o","r","r","y",","," ","I","'","m"," ","h","a","v","i","n","g"," ","t","r","o","u","b","l","e"," ","g","e","n","e","r","a","t","i","n","g"," ","a"," ","r","e","s","p","o","n","s","e"," ","a","f","t","e","r"," ">>
    \o <<ToString(max_retries)>> \o <<" ","a","t","t","e","m","p","t","s",".">>

\* LLMManager.generate_with_retries: the for loop from iteration attempt
\* on, after calls POSTs and the given sleeps
RECURSIVE generate_with_retries_loop(_, _, _, _, _)
generate_with_retries_loop(attempt, max_retries, script, calls, sleeps) ==
  IF attempt >= max_retries
  THEN \* the loop ends without a return statement
       [raised |-> FALSE, value |-> PyNone, calls |-> calls, sleeps |-> sleeps]
  ELSE LET r == generate(script[calls + 1]) IN
       IF ~r.raised
       THEN [raised |-> FALSE, value |-> r.value,
             calls |-> calls + 1, sleeps |-> sleeps]
       ELSE IF attempt < max_retries - 1
       THEN generate_with_retries_loop(attempt + 1, max_retries, script,
                                       calls + 1, Append(sleeps, 2 ^ attempt))
       ELSE [raised |-> FALSE, value |-> Apology(max_retries),
             calls |-> calls + 1, sleeps |-> sleeps]

generate_with_retries(script, max_retries) ==
  generate_with_retries_loop(0, max_retries, script, 0, << >>)

\* s.split(sep)[0]
BeforeFirst(s, sep) ==
  IF Contains(s, sep) THEN SubSeq(s, 1, Find(s, sep) - 1) ELSE s

\* the text after the first occurrence of sep (sep occurs in s)
AfterFirst(s, sep) == SubSeq(s, Find(s, sep) + Len(sep), Len(s))

\* s.split(sep)[1], for s containing sep
SplitSecond(s, sep) == BeforeFirst(AfterFirst(s, sep), sep)

\* s.rfind(sub): 1-based index of the last occurrence, 0 when absent
RFind(s, sub) ==
  IF Contains(s, sub)
  THEN CHOOSE i \in 1..(Len(s) - Len(sub) + 1) :
         /\ OccursAt(s, sub, i)
         /\ \A j \in (i + 1)..(Len(s) - Len(sub) + 1) : ~OccursAt(s, sub, j)
  ELSE 0

\* the parsed values: the dicts {'a': 1} and {}, and the str 's'
PyDictA1 == <<"{'a': 1}">>
PyDictEmpty == <<"{}">>
PyStrS == <<"'s'">>
JsonValues == {PyDictA1, PyDictEmpty, PyStrS}

\* s without its JSON whitespace characters
RECURSIVE RemoveWs(_)
RemoveWs(s) ==
  IF s = << >> THEN << >>
  ELSE IF Head(s) \in {" ", "\t", "\n", "\r"} THEN RemoveWs(Tail(s))
  ELSE <<Head(s)>> \o RemoveWs(Tail(s))

\* json.loads on the texts built from RespFrags: the only JSON documents
\* among them are {"a":1}, {} and "s", with whitespace around the tokens
JsonLoads(s) ==
  LET t == RemoveWs(s) IN
  CASE t = <<"{","\"","a","\"",":","1","}">> -> [ok |-> TRUE, value |-> PyDictA1]
    [] t = <<"{","}">>        -> [ok |-> TRUE, value |-> PyDictEmpty]
    [] t = <<"\"","s","\"">>     -> [ok |-> TRUE, value |-> PyStrS]
    [] OTHER            -> [ok |-> FALSE, value |-> PyNone]

\* the text json_text selected by lines 147-161, << >> when none is
json_text(response) ==
  IF Contains(response, <<"backtick","backtick","backtick","j","s","o","n">>)
  THEN Strip(BeforeFirst(SplitSecond(response, <<"backtick","backtick","backtick","j","s","o","n">>), <<"backtick","backtick","backtick">>))
  ELSE IF Contains(response, <<"backtick","backtick","backtick">>)
  THEN Strip(SplitSecond(response, <<"backtick","backtick","backtick">>))
  ELSE LET start_idx == Find(response, <<"{">>)
           end_idx == RFind(response, <<"}">>) IN
       IF start_idx # 0 /\ end_idx # 0 /\ end_idx > start_idx
       THEN SubSeq(response, start_idx, end_idx)
       ELSE << >>

\* generate_structured_output without the except clauses
generate_structured_output_nocatch(http) ==
  LET r == generate(http) IN
  IF r.raised THEN [raised |-> TRUE, value |-> PyNone]
  ELSE LET jt == json_text(r.value)
           parsed == IF jt # << >> THEN JsonLoads(jt) ELSE JsonLoads(r.value) IN
       IF parsed.ok THEN [raised |-> FALSE, value |-> parsed.value]
       ELSE [raised |-> TRUE, value |-> PyNone]

\* LLMManager.generate_structured_output for the POST outcome http
generate_structured_output(http) ==
  LET r == generate(http) IN
  IF r.raised THEN [raised |-> TRUE, value |-> PyNone]
  ELSE LET jt == json_text(r.value)
           parsed == IF jt # << >> THEN JsonLoads(jt) ELSE JsonLoads(r.value) IN
       IF parsed.ok THEN [raised |-> FALSE, value |-> parsed.value]
       ELSE \* except json.JSONDecodeError
            [raised |-> FALSE, value |-> PyNone]

\* largest max_retries tried, and the number of scripted POST outcomes
MaxRetries == 3

\* bodies of successful completions
OkBodies == { <<"O","K">>, <<" ","O","K","\n">>, << >> }

HttpOutcomes ==
  {[kind |-> k, body |-> << >>] : k \in HttpKinds \ {"ok"}}
    \cup {[kind |-> "ok", body |-> b] : b \in OkBodies}

NoOut == [raised |-> FALSE, value |-> PyNone, calls |-> 0, sleeps |-> << >>]

InitLLM ==
  /\ backend \in [1..MaxRetries -> HttpOutcomes]
  /\ maxRetries \in 0..MaxRetries
  /\ llmOp = "none"
  /\ llmOut = NoOut

\* the LLM manager is not in use
IdleLLM ==
  /\ backend = << >>
  /\ maxRetries = 0
  /\ llmOp = "idle"
  /\ llmOut = NoOut

\* a caller invokes generate(prompt)
GenerateCall ==
  /\ llmOp = "none"
  /\ llmOp' = "generate"
  /\ LET r == generate(backend[1]) IN
       llmOut' = [raised |-> r.raised, value |-> r.value,
                  calls |-> 1, sleeps |-> << >>]
  /\ UNCHANGED <<backend, maxRetries>>
  /\ UNCHANGED varsNotLLM

\* a caller invokes generate_with_retries(prompt, max_retries)
GenerateWithRetriesCall ==
  /\ llmOp = "none"
  /\ llmOp' = "generate_with_retries"
  /\ llmOut' = generate_with_retries(backend, maxRetries)
  /\ UNCHANGED <<backend, maxRetries>>
  /\ UNCHANGED varsNotLLM

NextLLM == GenerateCall \/ GenerateWithRetriesCall

\* fragments the completions given to generate_structured_output are built of
RespFrags ==
  { <<"backtick","backtick","backtick","j","s","o","n">>, <<"backtick","backtick","backtick">>, <<"{">>, <<"}">>, <<"{","\"","a","\"",":","1","}">>, <<"\"","s","\"">>, <<"\n">>, <<"x">> }

MaxRespFrags == 5

RespTexts == {Concat(fs) : fs \in SeqsUpTo(RespFrags, MaxRespFrags)}

StructOutcomes ==
  {[kind |-> k, body |-> << >>] : k \in HttpKinds \ {"ok"}}
    \cup {[kind |-> "ok", body |-> b] : b \in RespTexts}

InitStruct ==
  /\ backend \in [1..1 -> StructOutcomes]
  /\ maxRetries = 0
  /\ llmOp = "none"
  /\ llmOut = NoOut

\* a caller invokes generate_structured_output(prompt, output_format)
GenerateStructuredOutputCall ==
  /\ llmOp = "none"
  /\ llmOp' = "generate_structured_output"
  /\ LET r == generate_structured_output(backend[1]) IN
       llmOut' = [raised |-> r.raised, value |-> r.value,
                  calls |-> 1, sleeps |-> << >>]
  /\ UNCHANGED <<backend, maxRetries>>
  /\ UNCHANGED varsNotLLM

NextStruct == GenerateStructuredOutputCall
---------------------------------------------------------------------------
(* EmbeddingManager (chatbot/embedding.py)                                 *)

\* the document a new store is seeded with
Placeholder ==
  [source |-> "unknown", text |-> "This is a placeholder document.",
   query |-> << >>, index |-> 0]

\* the index directory
DiskAbsent == [state |-> "absent", docs |-> << >>]
DiskOk(docs) == [state |-> "ok", docs |-> docs]
DiskCorrupt == [state |-> "corrupt", docs |-> << >>]

\* FAISS.save_local rewrites the whole index (two files): it succeeds, fails
\* before writing, or fails half-way and leaves an index that cannot be read
SaveOutcomes == {"ok", "fail_clean", "fail_partial"}

save_local(docs, disk, save) ==
  CASE save = "ok"           -> DiskOk(docs)
    [] save = "fail_clean"   -> disk
    [] save = "fail_partial" -> DiskCorrupt

\* EmbeddingManager._load_or_create_vector_store: the store and the index
\* directory after it; load is the outcome of FAISS.load_local ("ok" or
\* "fail"), save the outcome of save_local
_load_or_create_vector_store(disk, load, save) ==
  IF disk.state # "absent"
  THEN \* index.faiss exists
       IF disk.state = "ok" /\ load = "ok"
       THEN [docs |-> disk.docs, disk |-> disk]
       ELSE \* except: placeholder store as fallback, not saved
            [docs |-> <<Placeholder>>, disk |-> disk]
  ELSE [docs |-> <<Placeholder>>,
        disk |-> save_local(<<Placeholder>>, disk, save)]

\* add_texts_to_vector_store that skips texts the store already holds
RECURSIVE AppendNew(_, _)
AppendNew(docs, texts) ==
  IF texts = << >> THEN docs
  ELSE AppendNew(IF \E i \in 1..Len(docs) : docs[i] = Head(texts)
                 THEN docs ELSE Append(docs, Head(texts)),
                 Tail(texts))

add_texts_to_vector_store_dedup(docs, disk, texts, embed, save) ==
  IF texts = << >>
  THEN [docs |-> docs, disk |-> disk, raised |-> FALSE, ids |-> 0]
  ELSE IF embed # "ok"
  THEN [docs |-> docs, disk |-> disk, raised |-> TRUE, ids |-> 0]
  ELSE IF save # "ok"
  THEN [docs |-> AppendNew(docs, texts),
        disk |-> save_local(AppendNew(docs, texts), disk, save),
        raised |-> TRUE, ids |-> 0]
  ELSE [docs |-> AppendNew(docs, texts),
        disk |-> DiskOk(AppendNew(docs, texts)),
        raised |-> FALSE, ids |-> Len(texts)]

\* EmbeddingManager.add_texts_to_vector_store: embed is the outcome of
\* vector_store.add_texts (the embedding of the texts), save the outcome of
\* save_local; ids is the number of document ids returned
add_texts_to_vector_store(docs, disk, texts, embed, save) ==
  IF texts = << >>
  THEN [docs |-> docs, disk |-> disk, raised |-> FALSE, ids |-> 0]
  ELSE IF embed # "ok"
  THEN \* nothing was added; the exception is logged and raised again
       [docs |-> docs, disk |-> disk, raised |-> TRUE, ids |-> 0]
  ELSE IF save # "ok"
  THEN \* added in memory, not persisted; raised again
       [docs |-> docs \o texts,
        disk |-> save_local(docs \o texts, disk, save),
        raised |-> TRUE, ids |-> 0]
  ELSE [docs |-> docs \o texts,
        disk |-> DiskOk(docs \o texts),
        raised |-> FALSE, ids |-> Len(texts)]

\* EmbeddingManager.similarity_search: the (at most k) documents returned,
\* best match first; search is the outcome of similarity_search_with_score
similarity_search(docs, k, search) ==
  IF search # "ok"
  THEN [raised |-> TRUE, results |-> << >>]
  ELSE [raised |-> FALSE,
        results |-> SubSeq(docs, 1, IF k < Len(docs) THEN k ELSE Len(docs))]

\* texts handed to the store, the longest list added at once, and the
\* largest store
VecTexts ==
  {[source |-> "text", text |-> t, query |-> << >>, index |-> 0] :
     t \in {"t1", "t2"}}
MaxTexts == 2
MaxDocs == 4

NoVecOut ==
  [op |-> "none", raised |-> FALSE, texts |-> << >>, before |-> << >>, n |-> 0]

InitVec ==
  \E save \in SaveOutcomes :
    LET r == _load_or_create_vector_store(DiskAbsent, "ok", save) IN
    /\ vsDocs = r.docs
    /\ vsDisk = r.disk
    /\ vsOut = NoVecOut

\* the vector store is not in use
IdleVec ==
  /\ vsDocs = << >>
  /\ vsDisk = DiskAbsent
  /\ vsOut = NoVecOut

\* a caller invokes add_texts_to_vector_store(texts)
AddTexts ==
  \E texts \in SeqsUpTo(VecTexts, MaxTexts) :
  \E embed \in {"ok", "fail"} : \E save \in SaveOutcomes :
    LET r == add_texts_to_vector_store(vsDocs, vsDisk, texts, embed, save) IN
    /\ Len(vsDocs) + Len(texts) <= MaxDocs
    /\ vsDocs' = r.docs
    /\ vsDisk' = r.disk
    /\ vsOut' = [op |-> "add", raised |-> r.raised, texts |-> texts,
                 before |-> vsDocs, n |-> r.ids]
    /\ UNCHANGED varsNotVec

\* a caller invokes similarity_search(query, k)
SimilaritySearch ==
  \E k \in 1..MaxDocs : \E search \in {"ok", "fail"} :
    LET r == similarity_search(vsDocs, k, search) IN
    /\ vsOut' = [op |-> "search", raised |-> r.raised, texts |-> r.results,
                 before |-> vsDocs, n |-> k]
    /\ UNCHANGED <<vsDocs, vsDisk>>
    /\ UNCHANGED varsNotVec

\* the process is restarted: EmbeddingManager.__init__ runs again on the
\* index directory
Restart ==
  \E load \in {"ok", "fail"} : \E save \in SaveOutcomes :
    LET r == _load_or_create_vector_store(vsDisk, load, save) IN
    /\ vsDocs' = r.docs
    /\ vsDisk' = r.disk
    /\ vsOut' = [op |-> "restart", raised |-> FALSE, texts |-> << >>,
                 before |-> vsDocs, n |-> 0]
    /\ UNCHANGED varsNotVec

NextVec == AddTexts \/ SimilaritySearch \/ Restart
---------------------------------------------------------------------------
(* Concurrent callers of EmbeddingManager.add_texts_to_vector_store        *)

\* the callers: two threads that share one EmbeddingManager, or two
\* processes that each loaded the same index directory
Writers == {"w1", "w2"}
Sharing == {"threads", "processes"}

\* the stores that the index directory holds before the calls
WriterBases ==
  { <<Placeholder>>,
    <<Placeholder, [source |-> "text", text |-> "t0", query |-> << >>,
                    index |-> 0]>> }

\* no concurrent caller
IdleWriters ==
  writers = [sharing |-> "none",
             of |-> [w \in Writers |->
                       [pc |-> "idle", docs |-> << >>, texts |-> << >>]]]

\* each caller is about to call add_texts_to_vector_store with its texts, on
\* a store loaded from the index directory
InitWriters ==
  /\ \E base \in WriterBases :
       /\ vsDisk = DiskOk(base)
       /\ \E sharing \in Sharing :
          \E texts \in [Writers -> SeqsUpTo(VecTexts, MaxTexts) \ {<< >>}] :
            writers = [sharing |-> sharing,
                       of |-> [w \in Writers |->
                                 [pc |-> "start",
                                  docs |-> _load_or_create_vector_store(
                                             DiskOk(base), "ok", "ok").docs,
                                  texts |-> texts[w]]]]
  /\ vsDocs = << >>
  /\ vsOut = NoVecOut

\* the stores the callers see after w has appended texts to the store it
\* sees: threads see the same FAISS object, a process only its own
AfterAppend(ws, w, texts) ==
  [v \in Writers |->
     IF v = w
     THEN [pc |-> "appended", docs |-> ws.of[w].docs \o texts,
           texts |-> ws.of[v].texts]
     ELSE IF ws.sharing = "threads"
     THEN [pc |-> ws.of[v].pc, docs |-> ws.of[w].docs \o texts,
           texts |-> ws.of[v].texts]
     ELSE ws.of[v]]

\* line 104 of add_texts_to_vector_store in caller w:
\* self.vector_store.add_texts(texts, metadatas)
AddTextsAppend(w) ==
  /\ writers.of[w].pc = "start"
  /\ writers' = [writers EXCEPT
                   !.of = AfterAppend(writers, w, writers.of[w].texts)]
  /\ UNCHANGED <<vsDocs, vsDisk, vsOut>>
  /\ UNCHANGED <<varsSql, varsLLM, varsChat>>

\* line 108 of add_texts_to_vector_store in caller w:
\* self.vector_store.save_local(self.vector_db_path)
AddTextsSave(w) ==
  /\ writers.of[w].pc = "appended"
  /\ vsDisk' = save_local(writers.of[w].docs, vsDisk, "ok")
  /\ writers' = [writers EXCEPT !.of[w].pc = "done"]
  /\ UNCHANGED <<vsDocs, vsOut>>
  /\ UNCHANGED <<varsSql, varsLLM, varsChat>>

NextWriters == \E w \in Writers : AddTextsAppend(w) \/ AddTextsSave(w)

---------------------------------------------------------------------------
(* DatabaseManager.execute_query (chatbot/database.py, database.py)        *)

\* a statement written in the program, standing for its SQL text
BuiltinStatement(name) == <<"S","E","L","E","C","T"," ","/","*"," ">> \o name \o <<" ","*","/">>

\* result rows; every row has the same fields
DataCenterRows(n) ==
  [i \in 1..n |-> [table |-> "data_centers", id |-> i, count |-> 0]]
ServerRows == <<[table |-> "servers", id |-> 1, count |-> 0]>>
CountRow(n) == <<[table |-> "", id |-> 0, count |-> n]>>

\* the store: "ok", or "down" when sqlite3 cannot open or read the file
DbStates == {"ok", "down"}

\* cursor.execute(query) and fetchall() for the statement s, given in lower
\* case and without the whitespace around it (SQLite reads keywords and
\* identifiers in any letter case), on a table data_centers of n rows; a
\* statement that SQLite cannot prepare raises sqlite3.Error
run_statement(s, n) ==
  CASE s = << >> ->
         \* nothing to execute, fetchall() returns no rows
         [raised |-> FALSE, rows |-> << >>]
    [] s = <<"s","e","l","e","c","t"," ","*"," ","f","r","o","m"," ","d","a","t","a","_","c","e","n","t","e","r","s">> ->
         [raised |-> FALSE, rows |-> DataCenterRows(n)]
    [] s = <<"s","e","l","e","c","t"," ","c","o","u","n","t","(","*",")"," ","a","s"," ","c","o","u","n","t"," ","f","r","o","m"," ","d","a","t","a","_","c","e","n","t","e","r","s">> ->
         [raised |-> FALSE, rows |-> CountRow(n)]
    [] s = <<"s","e","l","e","c","t"," ","*"," ","f","r","o","m"," ","s","e","r","v","e","r","s">> ->
         [raised |-> FALSE, rows |-> ServerRows]
    [] s = <<"s","e","l","e","c","t"," ","*"," ","f","r","o","m"," ","s","e","r","v","e","r","s"," ","w","h","e","r","e"," ","o","s"," ","l","i","k","e"," ","'","u","b","u","n","t","u","%","'">> ->
         \* LIKE ignores the letter case of ASCII characters
         [raised |-> FALSE, rows |-> ServerRows]
    [] StartsWith(s, <<"s","e","l","e","c","t"," ","/","*"," ">>) ->
         [raised |-> FALSE, rows |-> ServerRows]
    [] OTHER -> [raised |-> TRUE, rows |-> << >>]

\* DatabaseManager.execute_query: the rows, or sqlite3.Error logged and
\* raised again
execute_query(sql, n, db) ==
  IF db # "ok" THEN [raised |-> TRUE, rows |-> << >>]
  ELSE run_statement(Lower(Strip(sql)), n)

\* the patterns of natural_language_to_sql_query on the lower-cased text
nl_patterns(nl) ==
  IF Contains(nl, <<"l","i","s","t"," ","a","l","l"," ","d","a","t","a"," ","c","e","n","t","e","r","s">>) \/ Contains(nl, <<"s","h","o","w"," ","a","l","l"," ","d","a","t","a"," ","c","e","n","t","e","r","s">>)
  THEN <<"S","E","L","E","C","T"," ","*"," ","F","R","O","M"," ","d","a","t","a","_","c","e","n","t","e","r","s">>
  ELSE IF Contains(nl, <<"l","i","s","t"," ","a","l","l"," ","s","e","r","v","e","r","s">>) \/ Contains(nl, <<"s","h","o","w"," ","a","l","l"," ","s","e","r","v","e","r","s">>)
  THEN <<"S","E","L","E","C","T"," ","*"," ","F","R","O","M"," ","s","e","r","v","e","r","s">>
  ELSE IF Contains(nl, <<"c","o","u","n","t"," ","s","e","r","v","e","r","s">>)
  THEN <<"S","E","L","E","C","T"," ","C","O","U","N","T","(","*",")"," ","a","s"," ","s","e","r","v","e","r","_","c","o","u","n","t"," ","F","R","O","M"," ","s","e","r","v","e","r","s">>
  ELSE IF Contains(nl, <<"a","v","e","r","a","g","e"," ","p","o","w","e","r"," ","u","s","a","g","e">>) \/ Contains(nl, <<"a","v","g"," ","p","o","w","e","r">>)
  THEN <<"S","E","L","E","C","T"," ","A","V","G","(","p","o","w","e","r","_","k","w",")"," ","a","s"," ","a","v","g","_","p","o","w","e","r"," ","F","R","O","M"," ","p","o","w","e","r","_","u","s","a","g","e">>
  ELSE PyNone

\* DatabaseManager.natural_language_to_sql_query: the SQL of the first
\* matching pattern, PyNone when there is none
natural_language_to_sql_query(natural_language) ==
  nl_patterns(Lower(natural_language))

---------------------------------------------------------------------------
(* RAGEngine (chatbot/rag.py)                                              *)

\* default of RAGEngine's top_k
top_k == 3

\* the documents of the vector store carry their metadata
NoDoc == [source |-> "", text |-> "", query |-> << >>, index |-> 0]

\* a prompt: the template and the values formatted into it
Prompt(template, history, context, rag_answer) ==
  [template |-> template, history |-> history, context |-> context,
   rag_answer |-> rag_answer]
NoAnswer == [kind |-> "", text |-> << >>, rows |-> << >>]
NoPrompt == Prompt("", << >>, << >>, NoAnswer)

\* one recorded call of a collaborator: its name, its string argument, the
\* texts it is given (vector-store add), the prompt (generate), whether it
\* raised and the rows it returned (execute_query)
Call(name, text, texts, prompt, raised, rows) ==
  [call |-> name, text |-> text, texts |-> texts, prompt |-> prompt,
   raised |-> raised, rows |-> rows]
CallQuery(sql, r) == Call("execute_query", sql, << >>, NoPrompt, r.raised, r.rows)
CallSearch(q, s) == Call("similarity_search", q, << >>, NoPrompt, s.raised, << >>)
CallAdd(query, a) == Call("add_texts", query, a.texts, NoPrompt, a.raised, << >>)
CallGenerate(q, prompt) == Call("generate", q, << >>, prompt, FALSE, << >>)

\* EmbeddingManager.add_sql_results_to_vector_store: one text per result
\* row; called tells whether add_texts_to_vector_store was invoked
SqlResultTexts(query, results) ==
  [i \in 1..Len(results) |->
     [source |-> "sql_result", text |-> "Query, Result", query |-> query,
      index |-> i - 1]]

\* what add_sql_results_to_vector_store did: the outcome r of
\* add_texts_to_vector_store for the texts
SqlResultsAdded(texts, r) ==
  [docs |-> r.docs, disk |-> r.disk, raised |-> r.raised, called |-> TRUE,
   texts |-> texts]

\* the same with all rows put into a single text
add_sql_results_to_vector_store_onetext(docs, disk, query, results, embed, save) ==
  IF results = << >>
  THEN [docs |-> docs, disk |-> disk, raised |-> FALSE, called |-> FALSE,
        texts |-> << >>]
  ELSE SqlResultsAdded(
         SubSeq(SqlResultTexts(query, results), 1, 1),
         add_texts_to_vector_store(docs, disk,
                                   SubSeq(SqlResultTexts(query, results), 1, 1),
                                   embed, save))

add_sql_results_to_vector_store(docs, disk, query, results, embed, save) ==
  IF results = << >>
  THEN [docs |-> docs, disk |-> disk, raised |-> FALSE, called |-> FALSE,
        texts |-> << >>]
  ELSE SqlResultsAdded(
         SqlResultTexts(query, results),
         add_texts_to_vector_store(docs, disk, SqlResultTexts(query, results),
                                   embed, save))

\* the SQL that lines 109-128 extract from the completion
extract_sql(response) ==
  IF Contains(response, <<"backtick","backtick","backtick","s","q","l">>)
  THEN Strip(BeforeFirst(SplitSecond(response, <<"backtick","backtick","backtick","s","q","l">>), <<"backtick","backtick","backtick">>))
  ELSE IF Contains(response, <<"backtick","backtick","backtick">>)
  THEN Strip(SplitSecond(response, <<"backtick","backtick","backtick">>))
  ELSE IF Contains(response, <<"S","E","L","E","C","T">>) \/ Contains(response, <<"s","e","l","e","c","t">>)
  THEN LET select_pos == IF Contains(response, <<"S","E","L","E","C","T">>)
                         THEN Find(response, <<"S","E","L","E","C","T">>)
                         ELSE Find(response, <<"s","e","l","e","c","t">>) IN
       Strip(SubSeq(response, select_pos, Len(response)))
  ELSE response

\* RAGEngine.generate_sql_query: the query of the rule-based conversion, or
\* else the one extracted from the completion; llm tells whether the LLM was
\* asked
rule_or_llm_query(query, http) ==
  IF query # PyNone
  THEN [query |-> query, llm |-> FALSE]
  ELSE [query |-> extract_sql(generate(http).value), llm |-> TRUE]

generate_sql_query(q, http) ==
  rule_or_llm_query(natural_language_to_sql_query(q), http)

db_related_terms ==
  << <<"d","a","t","a","b","a","s","e">>, <<"d","a","t","a">>, <<"q","u","e","r","y">>, <<"s","h","o","w">>, <<"l","i","s","t">>, <<"f","i","n","d">>, <<"h","o","w"," ","m","a","n","y">>,
     <<"a","v","e","r","a","g","e">>, <<"d","a","t","a","c","e","n","t","e","r">>, <<"s","e","r","v","e","r">>, <<"p","o","w","e","r">>, <<"n","e","t","w","o","r","k">> >>

is_db_question(q) ==
  LET question_lower == Lower(q) IN
  \E i \in 1..Len(db_related_terms) :
    Contains(question_lower, db_related_terms[i])

\* the dictionary execute_rag_query returns; haskey tells whether it has
\* the key 'sql_results'
RagResult(query_type, sql_query, sql_results, haskey, context, answer) ==
  [query_type |-> query_type, sql_query |-> sql_query,
   sql_results |-> sql_results, has_sql_results |-> haskey,
   context |-> context, answer |-> answer]

\* no retrieval ran
NoRag == RagResult("none", PyNone, << >>, FALSE, << >>, NoAnswer)

\* answers: the text of a completion, or a text built around result rows
LlmAnswer(text) == [kind |-> "llm", text |-> text, rows |-> << >>]
RowsAnswer(rows) == [kind |-> "SQL Query Results", text |-> << >>, rows |-> rows]
ErrorAnswer == [kind |-> "Error executing SQL query", text |-> << >>, rows |-> << >>]

\* a context item: its source, and the document or the rows it renders
ContextItem(source, doc, rows) == [source |-> source, doc |-> doc, rows |-> rows]

\* lines 147-155: the rows r of the store were handed to the vector store
\* with outcome a
direct_result(q, r, a) ==
  IF a.raised
  THEN [rag |-> RagResult("direct_sql_error", q, << >>, FALSE, << >>, ErrorAnswer),
        docs |-> a.docs, disk |-> a.disk,
        trace |-> <<CallQuery(q, r), CallAdd(q, a)>>]
  ELSE [rag |-> RagResult("direct_sql", q, r.rows, TRUE,
                          <<ContextItem("direct_sql_results", NoDoc, r.rows)>>,
                          RowsAnswer(r.rows)),
        docs |-> a.docs, disk |-> a.disk,
        trace |-> IF a.called THEN <<CallQuery(q, r), CallAdd(q, a)>>
                              ELSE <<CallQuery(q, r)>>]

\* lines 145-164: execute_query returned or raised r
direct_executed(q, docs, disk, r, env) ==
  IF r.raised
  THEN [rag |-> RagResult("direct_sql_error", q, << >>, FALSE, << >>, ErrorAnswer),
        docs |-> docs, disk |-> disk, trace |-> <<CallQuery(q, r)>>]
  ELSE direct_result(q, r,
         add_sql_results_to_vector_store(docs, disk, q, r.rows,
                                         env.embed, env.save))

\* lines 141-164 of execute_rag_query: the question is a literal query
execute_rag_query_direct(q, docs, disk, n, env) ==
  direct_executed(q, docs, disk, execute_query(q, n, env.db), env)

\* Step 4 of execute_rag_query (lines 211-229): the final generation over
\* the collected context
rag_answer(q, sql_query, sql_results, context, docs, disk, t, http) ==
  [rag |-> RagResult("rag", sql_query, sql_results, TRUE, context,
                     LlmAnswer(generate(http).value)),
   docs |-> docs, disk |-> disk,
   trace |-> Append(t, CallGenerate(q, Prompt("RAG_PROMPT", << >>, context,
                                              NoAnswer)))]

SqlErrorItem == ContextItem("sql_error", NoDoc, << >>)

\* lines 197-204: the rows r of the generated query were handed to the
\* vector store with outcome a
rag_stored(q, query, r, a, context, t, http) ==
  rag_answer(q, query, r.rows,
             Append(context,
                    IF a.raised THEN SqlErrorItem
                    ELSE ContextItem("generated_sql_results", NoDoc, r.rows)),
             a.docs, a.disk,
             IF a.called THEN Append(t, CallAdd(query, a)) ELSE t,
             http)

\* the same without the sql_error entry when execute_query raised
rag_executed_silent(q, query, r, docs, disk, context, t, env) ==
  IF r.raised
  THEN rag_answer(q, query, << >>, context, docs, disk,
                  Append(t, CallQuery(query, r)), env.llmRag)
  ELSE rag_stored(q, query, r,
                  add_sql_results_to_vector_store(docs, disk, query, r.rows,
                                                  env.embed, env.save),
                  context, Append(t, CallQuery(query, r)), env.llmRag)

\* lines 193-210: execute_query returned or raised r for the generated query
rag_executed(q, query, r, docs, disk, context, t, env) ==
  IF r.raised
  THEN rag_answer(q, query, << >>, Append(context, SqlErrorItem), docs, disk,
                  Append(t, CallQuery(query, r)), env.llmRag)
  ELSE rag_stored(q, query, r,
                  add_sql_results_to_vector_store(docs, disk, query, r.rows,
                                                  env.embed, env.save),
                  context, Append(t, CallQuery(query, r)), env.llmRag)

\* lines 188-193: generate_sql_query returned g
rag_generated(q, g, docs, disk, n, context, t, env) ==
  rag_executed(q, g.query, execute_query(g.query, n, env.db), docs, disk,
               context,
               IF g.llm
               THEN Append(t, CallGenerate(q,
                      Prompt("SQL_GENERATION_PROMPT", << >>, << >>, NoAnswer)))
               ELSE t,
               env)

\* the context items of the documents retrieved (lines 169-170), none when
\* the search raised (lines 172-174)
RetrievedContext(s) ==
  IF s.raised THEN << >>
  ELSE [i \in 1..Len(s.results) |->
          ContextItem(s.results[i].source, s.results[i], << >>)]

\* the same with a failed retrieval ending the request
rag_retrieved_fatal(q, s, docs, disk, n, env) ==
  IF s.raised
  THEN [rag |-> RagResult("rag_error", PyNone, << >>, TRUE, << >>, ErrorAnswer),
        docs |-> docs, disk |-> disk, trace |-> <<CallSearch(q, s)>>]
  ELSE IF ~is_db_question(q)
  THEN rag_answer(q, PyNone, << >>, RetrievedContext(s), docs, disk,
                  <<CallSearch(q, s)>>, env.llmRag)
  ELSE rag_generated(q, generate_sql_query(q, env.llmSql), docs, disk, n,
                     RetrievedContext(s), <<CallSearch(q, s)>>, env)

\* lines 176-229: Steps 3 and 4 after the retrieval s
rag_retrieved(q, s, docs, disk, n, env) ==
  IF ~is_db_question(q)
  THEN rag_answer(q, PyNone, << >>, RetrievedContext(s), docs, disk,
                  <<CallSearch(q, s)>>, env.llmRag)
  ELSE rag_generated(q, generate_sql_query(q, env.llmSql), docs, disk, n,
                     RetrievedContext(s), <<CallSearch(q, s)>>, env)

\* the same with query synthesis for every question
execute_rag_query_rag_always(q, docs, disk, n, env) ==
  rag_generated(q, generate_sql_query(q, env.llmSql), docs, disk, n,
                RetrievedContext(similarity_search(docs, top_k, env.search)),
                <<CallSearch(q, similarity_search(docs, top_k, env.search))>>,
                env)

\* lines 166-229 of execute_rag_query: retrieval, query synthesis, answer
execute_rag_query_rag(q, docs, disk, n, env) ==
  rag_retrieved(q, similarity_search(docs, top_k, env.search), docs, disk, n,
                env)

\* RAGEngine.execute_rag_query
execute_rag_query(q, docs, disk, n, env) ==
  IF is_sql_query(q)
  THEN execute_rag_query_direct(q, docs, disk, n, env)
  ELSE execute_rag_query_rag(q, docs, disk, n, env)

\* the first five exchanges instead of the last five
LastExchanges_first(history) ==
  IF Len(history) <= 5 THEN history ELSE SubSeq(history, 1, 5)

\* conversation_history[-5:]
LastExchanges(history) ==
  IF Len(history) <= 5 THEN history
  ELSE SubSeq(history, Len(history) - 4, Len(history))

\* lines 246-270 of answer_conversational_query for the RAG result o.  A
\* result with an sql_query but without the key 'sql_results' makes line
\* 258 raise KeyError.
conversational_answer(q, history, o, http) ==
  IF o.rag.sql_query # PyNone /\ o.rag.sql_query # << >> /\ ~o.rag.has_sql_results
  THEN [raised |-> TRUE, value |-> PyNone, rag |-> o.rag,
        docs |-> o.docs, disk |-> o.disk, trace |-> o.trace]
  ELSE [raised |-> FALSE, value |-> generate(http).value, rag |-> o.rag,
        docs |-> o.docs, disk |-> o.disk,
        trace |-> Append(o.trace,
                         CallGenerate(q, Prompt("CONVERSATIONAL_PROMPT",
                                                LastExchanges(history),
                                                o.rag.context, o.rag.answer)))]

\* RAGEngine.answer_conversational_query
answer_conversational_query(q, history, docs, disk, n, env) ==
  conversational_answer(q, history, execute_rag_query(q, docs, disk, n, env),
                        env.llmFinal)

---------------------------------------------------------------------------
(* Conversation (chatbot/conversation.py)                                  *)

\* re.search of a pattern anchored at the start of the text: the pattern is
\* a string in which the element "\\s" stands for the class \s
MatchesAtStart(t, pat) ==
  /\ Len(pat) <= Len(t)
  /\ \A i \in 1..Len(pat) :
       IF pat[i] = "\\s" THEN t[i] \in Whitespace ELSE t[i] = pat[i]

\* pat followed by the end of the text or by one of the characters in after
MatchesThen(t, pat, after) ==
  /\ MatchesAtStart(t, pat)
  /\ (Len(t) = Len(pat) \/ t[Len(pat) + 1] \in after)

\* the five patterns of is_greeting, alternatives written out
greetings_patterns ==
  << [alts |-> {<<"h","i">>, <<"h","e","l","l","o">>, <<"h","e","y">>, <<"g","r","e","e","t","i","n","g","s">>, <<"h","o","w","d","y">>},
      after |-> Whitespace \cup {"!"}],
     [alts |-> {<<"g","o","o","d","\\s","m","o","r","n","i","n","g">>, <<"g","o","o","d","\\s","a","f","t","e","r","n","o","o","n">>, <<"g","o","o","d","\\s","e","v","e","n","i","n","g">>,
                <<"g","o","o","d","\\s","d","a","y">>},
      after |-> Whitespace \cup {"!"}],
     [alts |-> {<<"h","o","w","\\s","a","r","e","\\s","y","o","u">>, <<"h","o","w","\\s","i","s","\\s","i","t","\\s","g","o","i","n","g">>, <<"h","o","w","\\s","a","r","e","\\s","t","h","i","n","g","s">>},
      after |-> Whitespace \cup {"?"}],
     [alts |-> {<<"w","h","a","t","'","s","\\s","u","p">>, <<"w","h","a","t","s","\\s","u","p">>},
      after |-> Whitespace \cup {"?"}],
     [alts |-> {<<"n","i","c","e","\\s","t","o","\\s","m","e","e","t","\\s","y","o","u">>, <<"n","i","c","e","\\s","t","o","\\s","s","e","e","\\s","y","o","u">>},
      after |-> Whitespace \cup {"!"}] >>

MatchesGreetingPattern(text) ==
  LET text_lower == Lower(text) IN
  \E i \in 1..Len(greetings_patterns) :
    \E pat \in greetings_patterns[i].alts :
      MatchesThen(text_lower, pat, greetings_patterns[i].after)

\* is_greeting that knows the phrases (patterns 2 to 5) only
is_greeting_phrases(text) ==
  LET text_lower == Lower(text) IN
  IF \E i \in 2..Len(greetings_patterns) :
       \E pat \in greetings_patterns[i].alts :
         MatchesThen(text_lower, pat, greetings_patterns[i].after)
  THEN TRUE
  ELSE FALSE

\* Conversation.is_greeting
is_greeting(text) ==
  IF MatchesGreetingPattern(text) THEN TRUE
  ELSE IF SplitCount(text) <= 3 THEN TRUE
  ELSE FALSE

\* Conversation.handle_greeting
handle_greeting(text, http) == generate(http).value

\* lines 93-99 of process_input after the greeting branch
greeted(user_input, history, docs, disk, response) ==
  [raised |-> FALSE, path |-> "greeting", value |-> response, rag |-> NoRag,
   history |-> Append(history, [user |-> user_input, assistant |-> response]),
   docs |-> docs, disk |-> disk,
   trace |-> <<CallGenerate(user_input,
                  Prompt("GREETING_PROMPT", << >>, << >>, NoAnswer))>>]

\* lines 93-99 of process_input after answer_conversational_query returned
\* or raised a
answered(user_input, history, a) ==
  [raised |-> a.raised, path |-> a.rag.query_type, value |-> a.value,
   rag |-> a.rag,
   history |-> IF a.raised THEN history
               ELSE Append(history, [user |-> user_input,
                                     assistant |-> a.value]),
   docs |-> a.docs, disk |-> a.disk, trace |-> a.trace]

\* Conversation.process_input: the response, whether an exception left the
\* method, and the history, store and calls after it
conv_process_input(user_input, history, docs, disk, n, env) ==
  IF is_greeting(user_input)
  THEN greeted(user_input, history, docs, disk,
               handle_greeting(user_input, env.llmFinal))
  ELSE answered(user_input, history,
                answer_conversational_query(user_input, history, docs, disk,
                                            n, env))

---------------------------------------------------------------------------
(* DataCenterChatbot (app.py)                                              *)

\* any(phrase in user_input for phrase in phrases)
AnyIn(u, phrases) == \E i \in 1..Len(phrases) : Contains(u, phrases[i])

\* str(n) for a natural number
Digits == <<"0","1","2","3","4","5","6","7","8","9">>
RECURSIVE Str(_)
Str(n) ==
  IF n < 10 THEN <<Digits[n + 1]>>
  ELSE Str(n \div 10) \o <<Digits[(n % 10) + 1]>>

greetings ==
  << <<"h","i">>, <<"h","e","l","l","o">>, <<"h","e","y">>, <<"g","r","e","e","t","i","n","g","s">>, <<"g","o","o","d"," ","m","o","r","n","i","n","g">>,
     <<"g","o","o","d"," ","a","f","t","e","r","n","o","o","n">>, <<"g","o","o","d"," ","e","v","e","n","i","n","g">> >>
farewells ==
  << <<"b","y","e">>, <<"g","o","o","d","b","y","e">>, <<"s","e","e"," ","y","o","u">>, <<"t","a","l","k"," ","t","o"," ","y","o","u"," ","l","a","t","e","r">>, <<"t","h","a","n","k","s">> >>

\* user_input == one of the entries
EqualsAny(u, entries) == \E i \in 1..Len(entries) : u = entries[i]

cities == << <<"n","e","w"," ","y","o","r","k">>, <<"s","a","n"," ","f","r","a","n","c","i","s","c","o">>, <<"l","o","n","d","o","n">> >>

\* the rules inside the try block of process_input, in source order: the
\* name of the rule and whether it answers the input u (lower-cased and
\* stripped).  A rule whose condition holds but whose body returns nothing
\* lets the input fall through to the rules after it.
app_rules(u) ==
  << [rule |-> "cities_with_data_centers",        \* line 73
      hit |-> AnyIn(u, << <<"w","h","i","c","h"," ","c","i","t","i","e","s"," ","h","a","v","e"," ","d","a","t","a"," ","c","e","n","t","e","r","s">>,
                          <<"c","i","t","i","e","s"," ","w","i","t","h"," ","d","a","t","a"," ","c","e","n","t","e","r","s">>, <<"d","a","t","a"," ","c","e","n","t","e","r"," ","c","i","t","i","e","s">> >>)],
     [rule |-> "data_centers_by_country",         \* line 89
      hit |-> \/ Contains(u, <<"d","a","t","a"," ","c","e","n","t","e","r","s">>) /\ Contains(u, <<"c","o","u","n","t","r","y">>)
              \/ Contains(u, <<"d","a","t","a"," ","c","e","n","t","e","r">>) /\ Contains(u, <<"c","o","u","n","t","r","y">>)],
     [rule |-> "data_centers_with_locations",     \* line 109
      hit |-> \/ /\ Contains(u, <<"l","i","s","t">>)
                 /\ Contains(u, <<"d","a","t","a"," ","c","e","n","t","e","r","s">>)
                 /\ (Contains(u, <<"c","i","t","y">>) \/ Contains(u, <<"c","o","u","n","t","r","y">>))
              \/ Contains(u, <<"d","a","t","a"," ","c","e","n","t","e","r","s"," ","w","i","t","h"," ","l","o","c","a","t","i","o","n","s">>)],
     [rule |-> "racks_per_data_center",           \* line 128
      hit |-> \/ Contains(u, <<"r","a","c","k","s">>) /\ Contains(u, <<"d","a","t","a"," ","c","e","n","t","e","r">>)
              \/ Contains(u, <<"r","a","c","k","s"," ","p","e","r"," ","d","a","t","a"," ","c","e","n","t","e","r">>)],
     [rule |-> "servers_with_rack_and_data_center", \* line 148
      hit |-> AnyIn(u, << <<"l","i","s","t"," ","a","l","l"," ","s","e","r","v","e","r","s"," ","w","i","t","h"," ","r","a","c","k"," ","a","n","d"," ","d","a","t","a"," ","c","e","n","t","e","r">>,
                          <<"s","e","r","v","e","r","s"," ","w","i","t","h"," ","r","a","c","k"," ","l","a","b","e","l"," ","a","n","d"," ","d","a","t","a"," ","c","e","n","t","e","r">>,
                          <<"a","l","l"," ","s","e","r","v","e","r","s"," ","w","i","t","h"," ","t","h","e","i","r"," ","r","a","c","k"," ","a","n","d"," ","d","a","t","a"," ","c","e","n","t","e","r">> >>)],
     [rule |-> "ubuntu_servers",                  \* line 166
      hit |-> AnyIn(u, << <<"w","h","i","c","h"," ","s","e","r","v","e","r","s"," ","a","r","e"," ","r","u","n","n","i","n","g"," ","u","b","u","n","t","u">>,
                          <<"u","b","u","n","t","u"," ","s","e","r","v","e","r","s">>, <<"s","e","r","v","e","r","s"," ","w","i","t","h"," ","u","b","u","n","t","u"," ","o","s">> >>)],
     [rule |-> "empty_racks",                     \* line 185
      hit |-> AnyIn(u, << <<"w","h","i","c","h"," ","r","a","c","k","s"," ","d","o"," ","n","o","t"," ","h","a","v","e"," ","a","n","y"," ","s","e","r","v","e","r","s">>,
                          <<"e","m","p","t","y"," ","r","a","c","k","s">>, <<"r","a","c","k","s"," ","w","i","t","h","o","u","t"," ","s","e","r","v","e","r","s">> >>)],
     [rule |-> "network_devices",                 \* line 205
      hit |-> AnyIn(u, << <<"l","i","s","t"," ","a","l","l"," ","n","e","t","w","o","r","k"," ","d","e","v","i","c","e","s">>,
                          <<"n","e","t","w","o","r","k"," ","d","e","v","i","c","e","s"," ","w","i","t","h"," ","t","y","p","e"," ","a","n","d"," ","d","a","t","a"," ","c","e","n","t","e","r">>,
                          <<"a","l","l"," ","n","e","t","w","o","r","k"," ","d","e","v","i","c","e","s"," ","a","n","d"," ","t","h","e","i","r"," ","d","a","t","a"," ","c","e","n","t","e","r">> >>)],
     [rule |-> "network_devices_per_data_center", \* line 222
      hit |-> AnyIn(u, << <<"h","o","w"," ","m","a","n","y"," ","n","e","t","w","o","r","k"," ","d","e","v","i","c","e","s"," ","i","n"," ","e","a","c","h"," ","d","a","t","a"," ","c","e","n","t","e","r">>,
                          <<"n","e","t","w","o","r","k"," ","d","e","v","i","c","e","s"," ","p","e","r"," ","d","a","t","a"," ","c","e","n","t","e","r">>,
                          <<"c","o","u","n","t"," ","o","f"," ","n","e","t","w","o","r","k"," ","d","e","v","i","c","e","s"," ","b","y"," ","d","a","t","a"," ","c","e","n","t","e","r">> >>)],
     [rule |-> "london_network_devices",          \* line 239
      hit |-> AnyIn(u, << <<"i","p"," ","a","d","d","r","e","s","s","e","s"," ","o","f"," ","n","e","t","w","o","r","k"," ","d","e","v","i","c","e","s"," ","i","n"," ","l","o","n","d","o","n">>,
                          <<"l","o","n","d","o","n"," ","n","e","t","w","o","r","k"," ","d","e","v","i","c","e"," ","i","p","s">>,
                          <<"n","e","t","w","o","r","k"," ","d","e","v","i","c","e","s"," ","i","n"," ","l","o","n","d","o","n">> >>)],
     [rule |-> "john_doe_maintenance",            \* line 259
      hit |-> AnyIn(u, << <<"e","n","t","i","t","i","e","s"," ","m","a","i","n","t","a","i","n","e","d"," ","b","y"," ","j","o","h","n"," ","d","o","e">>,
                          <<"j","o","h","n"," ","d","o","e"," ","m","a","i","n","t","e","n","a","n","c","e">>, <<"m","a","i","n","t","e","n","a","n","c","e"," ","b","y"," ","j","o","h","n"," ","d","o","e">> >>)],
     [rule |-> "maintenance_by_entity_type",      \* line 282
      hit |-> \/ AnyIn(u, << <<"m","a","i","n","t","e","n","a","n","c","e"," ","t","a","s","k","s">>, <<"m","a","i","n","t","e","n","a","n","c","e"," ","c","o","u","n","t">> >>)
              \/ Contains(u, <<"m","a","i","n","t","e","n","a","n","c","e">>) /\ Contains(u, <<"v","s">>)
              \/ Contains(u, <<"m","a","i","n","t","e","n","a","n","c","e">>) /\ Contains(u, <<"c","o","m","p","a","r","e">>)
              \/ Contains(u, <<"m","a","i","n","t","e","n","a","n","c","e">>) /\ Contains(u, <<"e","n","t","i","t","y"," ","t","y","p","e">>)],
     [rule |-> "server_maintenance_2023",         \* line 299
      hit |-> /\ Contains(u, <<"2","0","2","3">>)
              /\ (Contains(u, <<"m","a","i","n","t","e","n","a","n","c","e">>) \/ Contains(u, <<"m","a","i","n","t","a","i","n","e","d">>))
              /\ Contains(u, <<"s","e","r","v","e","r">>)],
     [rule |-> "maintenance_logs",                \* line 319
      hit |-> AnyIn(u, << <<"a","l","l"," ","m","a","i","n","t","e","n","a","n","c","e"," ","l","o","g","s">>, <<"l","i","s","t"," ","m","a","i","n","t","e","n","a","n","c","e"," ","l","o","g","s">>,
                          <<"m","a","i","n","t","e","n","a","n","c","e"," ","h","i","s","t","o","r","y">> >>)],
     [rule |-> "servers_by_country",              \* line 344
      hit |-> \/ /\ Contains(u, <<"s","e","r","v","e","r","s">>)
                 /\ Contains(u, <<"c","o","u","n","t","r","y">>)
                 /\ ~Contains(u, <<"d","a","t","a"," ","c","e","n","t","e","r">>)
              \/ Contains(u, <<"s","e","r","v","e","r"," ","c","o","u","n","t"," ","b","y"," ","c","o","u","n","t","r","y">>)
              \/ Contains(u, <<"h","o","w"," ","m","a","n","y"," ","s","e","r","v","e","r","s"," ","p","e","r"," ","c","o","u","n","t","r","y">>)],
     [rule |-> "data_centers_with_both",          \* line 366
      hit |-> AnyIn(u, << <<"d","a","t","a"," ","c","e","n","t","e","r","s"," ","w","i","t","h"," ","b","o","t","h"," ","s","e","r","v","e","r","s"," ","a","n","d"," ","n","e","t","w","o","r","k"," ","d","e","v","i","c","e","s">>,
                          <<"d","a","t","a"," ","c","e","n","t","e","r","s"," ","w","i","t","h"," ","s","e","r","v","e","r","s"," ","a","n","d"," ","n","e","t","w","o","r","k"," ","d","e","v","i","c","e","s">>,
                          <<"w","h","i","c","h"," ","d","a","t","a"," ","c","e","n","t","e","r","s"," ","h","a","v","e"," ","b","o","t","h">> >>)],
     [rule |-> "recent_server_maintenance",       \* line 393
      hit |-> \/ /\ Contains(u, <<"r","e","c","e","n","t">>)
                 /\ Contains(u, <<"m","a","i","n","t","e","n","a","n","c","e">>)
                 /\ Contains(u, <<"s","e","r","v","e","r">>)
              \/ /\ Contains(u, <<"l","a","t","e","s","t">>)
                 /\ Contains(u, <<"m","a","i","n","t","e","n","a","n","c","e">>)
                 /\ Contains(u, <<"s","e","r","v","e","r">>)],
     [rule |-> "never_maintained",                \* line 414
      hit |-> \/ Contains(u, <<"w","i","t","h","o","u","t"," ","m","a","i","n","t","e","n","a","n","c","e">>)
              \/ Contains(u, <<"n","e","v","e","r"," ","h","a","d"," ","m","a","i","n","t","e","n","a","n","c","e">>)
              \/ Contains(u, <<"n","o"," ","m","a","i","n","t","e","n","a","n","c","e">>)],
     [rule |-> "count_data_centers",              \* line 450
      hit |-> AnyIn(u, << <<"h","o","w"," ","m","a","n","y"," ","d","a","t","a"," ","c","e","n","t","e","r","s">>, <<"n","u","m","b","e","r"," ","o","f"," ","d","a","t","a"," ","c","e","n","t","e","r","s">>,
                          <<"c","o","u","n","t"," ","o","f"," ","d","a","t","a"," ","c","e","n","t","e","r","s">> >>)],
     [rule |-> "list_data_centers",               \* line 456
      hit |-> AnyIn(u, << <<"l","i","s","t"," ","a","l","l"," ","d","a","t","a"," ","c","e","n","t","e","r","s">>, <<"s","h","o","w"," ","a","l","l"," ","d","a","t","a"," ","c","e","n","t","e","r","s">>,
                          <<"w","h","a","t"," ","d","a","t","a"," ","c","e","n","t","e","r","s">>, <<"w","h","i","c","h"," ","d","a","t","a"," ","c","e","n","t","e","r","s">> >>)],
     [rule |-> "data_centers_in_city",            \* lines 489-531
      hit |-> AnyIn(u, cities)],
     [rule |-> "largest_data_center",             \* line 534
      hit |-> AnyIn(u, << <<"l","a","r","g","e","s","t"," ","d","a","t","a"," ","c","e","n","t","e","r">>, <<"b","i","g","g","e","s","t"," ","d","a","t","a"," ","c","e","n","t","e","r">> >>)],
     [rule |-> "smallest_data_center",            \* line 556
      hit |-> AnyIn(u, << <<"s","m","a","l","l","e","s","t"," ","d","a","t","a"," ","c","e","n","t","e","r">> >>)],
     [rule |-> "sql",                             \* line 578
      hit |-> StartsWith(u, <<"s","q","l",":">>)],
     [rule |-> "cities",                          \* line 700
      hit |-> /\ AnyIn(u, << <<"w","h","i","c","h"," ","c","i","t","i","e","s">>, <<"w","h","a","t"," ","c","i","t","i","e","s">>, <<"c","i","t","i","e","s"," ","w","i","t","h">>,
                             <<"l","i","s","t"," ","c","i","t","i","e","s">> >>)
              /\ Contains(u, <<"d","a","t","a"," ","c","e","n","t","e","r">>)],
     [rule |-> "rack_counts",                     \* line 726
      hit |-> /\ Contains(u, <<"r","a","c","k","s">>)
              /\ AnyIn(u, << <<"h","o","w"," ","m","a","n","y">>, <<"c","o","u","n","t">>, <<"n","u","m","b","e","r"," ","o","f">> >>)
              /\ Contains(u, <<"d","a","t","a"," ","c","e","n","t","e","r">>)],
     [rule |-> "servers_listing",                 \* line 751
      hit |-> /\ Contains(u, <<"s","e","r","v","e","r","s">>)
              /\ AnyIn(u, << <<"l","i","s","t">>, <<"s","h","o","w">>, <<"d","i","s","p","l","a","y">> >>)
              /\ AnyIn(u, << <<"r","a","c","k">>, <<"d","a","t","a"," ","c","e","n","t","e","r">> >>)],
     [rule |-> "servers_by_os",                   \* lines 789-824
      \* entered on ("servers" and "os") or "ubuntu" or "centos" or
      \* "windows"; returns only when an operating system is named
      hit |-> AnyIn(u, << <<"u","b","u","n","t","u">>, <<"c","e","n","t","o","s">>, <<"w","i","n","d","o","w","s">> >>)],
     [rule |-> "help",                            \* line 827
      hit |-> AnyIn(u, << <<"h","e","l","p">>, <<"e","x","a","m","p","l","e","s">>, <<"w","h","a","t"," ","c","a","n"," ","y","o","u"," ","d","o">>,
                          <<"c","a","p","a","b","i","l","i","t","i","e","s">> >>)],
     [rule |-> "server_count",                    \* lines 848-928
      \* a city in the input was answered by data_centers_in_city; without
      \* one the body returns only for "how many"
      hit |-> /\ AnyIn(u, << <<"s","e","r","v","e","r","s"," ","i","n">>, <<"s","e","r","v","e","r","s"," ","a","t">>, <<"h","o","w"," ","m","a","n","y"," ","s","e","r","v","e","r","s">> >>)
              /\ Contains(u, <<"h","o","w"," ","m","a","n","y">>)],
     [rule |-> "total_server_count",              \* line 931
      hit |-> AnyIn(u, << <<"t","o","t","a","l"," ","s","e","r","v","e","r"," ","c","o","u","n","t">>, <<"c","o","m","b","i","n","e","d"," ","s","e","r","v","e","r","s">>,
                          <<"a","l","l"," ","s","e","r","v","e","r","s"," ","c","o","u","n","t">> >>)],
     [rule |-> "server_os_types",                 \* line 947
      hit |-> AnyIn(u, << <<"s","e","r","v","e","r"," ","o","s">>, <<"o","p","e","r","a","t","i","n","g"," ","s","y","s","t","e","m","s">>, <<"w","h","a","t"," ","o","s">>,
                          <<"o","s"," ","t","y","p","e","s">> >>)],
     [rule |-> "list_servers",                    \* line 969
      hit |-> /\ AnyIn(u, << <<"l","i","s","t"," ","a","l","l"," ","s","e","r","v","e","r","s">>, <<"s","h","o","w"," ","a","l","l"," ","s","e","r","v","e","r","s">>,
                             <<"a","l","l"," ","s","e","r","v","e","r","s">> >>)
              /\ ~Contains(u, <<"c","o","u","n","t">>)],
     [rule |-> "fallback",                        \* line 998
      hit |-> AnyIn(u, << <<"d","a","t","a"," ","c","e","n","t","e","r">>, <<"d","a","t","a","c","e","n","t","e","r">>, <<"f","a","c","i","l","i","t","y">>,
                          <<"l","o","c","a","t","i","o","n">>, <<"s","e","r","v","e","r">>, <<"s","e","r","v","e","r","s">> >>)] >>

\* the first rule of rs that hits, "default" when none does
first_hit(rs) ==
  IF \E i \in 1..Len(rs) : rs[i].hit
  THEN rs[CHOOSE i \in 1..Len(rs) :
            rs[i].hit /\ \A j \in 1..(i - 1) : ~rs[j].hit].rule
  ELSE "default"

\* the rule that answers u
first_rule(u) == first_hit(app_rules(u))

\* rules that answer with a fixed text and never query the store
CannedRules == {"help", "fallback", "default"}

\* DataCenterChatbot.execute_query: exceptions of the store become a single
\* row with the key 'error'
app_execute_query(query, n, db) ==
  [error |-> execute_query(query, n, db).raised,
   rows |-> execute_query(query, n, db).rows,
   call |-> CallQuery(query, execute_query(query, n, db))]

ErrorApology == <<"I"," ","e","n","c","o","u","n","t","e","r","e","d"," ","a","n"," ","e","r","r","o","r"," ","p","r","o","c","e","s","s","i","n","g"," ","y","o","u","r"," ","r","e","q","u","e","s","t">>

\* what process_input returns: the rule that answered, the text, and the
\* store calls made
AppAnswer(rule, text, calls) == [rule |-> rule, text |-> text, calls |-> calls]

CountSql == <<"S","E","L","E","C","T"," ","C","O","U","N","T","(","*",")"," ","a","s"," ","c","o","u","n","t"," ","F","R","O","M"," ","d","a","t","a","_","c","e","n","t","e","r","s">>

\* lines 452-453 with the number of result rows as the count
count_answer_len(r) ==
  IF r.error
  THEN AppAnswer("count_data_centers", ErrorApology, <<r.call>>)
  ELSE AppAnswer("count_data_centers",
                 <<"W","e"," ","c","u","r","r","e","n","t","l","y"," ","h","a","v","e"," ">> \o Str(Len(r.rows))
                   \o <<" ","d","a","t","a"," ","c","e","n","t","e","r","s"," ","i","n"," ","o","u","r"," ","s","y","s","t","e","m",".">>,
                 <<r.call>>)

\* lines 452-453: results[0]['count'] raises KeyError on the error row,
\* which the except clause of line 1009 turns into the apology
count_answer(r) ==
  IF r.error
  THEN AppAnswer("count_data_centers", ErrorApology, <<r.call>>)
  ELSE AppAnswer("count_data_centers",
                 <<"W","e"," ","c","u","r","r","e","n","t","l","y"," ","h","a","v","e"," ">> \o Str(r.rows[1].count)
                   \o <<" ","d","a","t","a"," ","c","e","n","t","e","r","s"," ","i","n"," ","o","u","r"," ","s","y","s","t","e","m",".">>,
                 <<r.call>>)

\* the count rule (lines 450-453)
count_data_centers(n, db) == count_answer(app_execute_query(CountSql, n, db))

\* the three built-in statements of the "sql: complex:" form
ComplexQueries ==
  << <<"s","e","r","v","e","r","_","u","s","a","g","e","_","b","y","_","d","a","t","a","c","e","n","t","e","r">>, <<"s","e","r","v","e","r","_","m","o","d","e","l","_","a","n","a","l","y","s","i","s">>, <<"s","e","a","r","c","h",":">> >>

\* the statement the sql rule executes for the input u (lines 579-660)
sql_rule_query(u) ==
  LET query == Strip(SubSeq(u, 5, Len(u))) IN
  IF Contains(query, <<"c","o","m","p","l","e","x",":">>)
  THEN LET complex_query == Strip(SplitSecond(query, <<"c","o","m","p","l","e","x",":">>)) IN
       IF \E i \in 1..Len(ComplexQueries) :
            Contains(complex_query, ComplexQueries[i])
       THEN BuiltinStatement(ComplexQueries[
              CHOOSE i \in 1..Len(ComplexQueries) :
                /\ Contains(complex_query, ComplexQueries[i])
                /\ \A j \in 1..(i - 1) :
                     ~Contains(complex_query, ComplexQueries[j])])
       ELSE query
  ELSE query

\* lines 664-697: the answer for the result r
sql_answer(r) ==
  IF r.error
  THEN AppAnswer("sql", <<"E","r","r","o","r"," ","e","x","e","c","u","t","i","n","g"," ","y","o","u","r"," ","S","Q","L"," ","q","u","e","r","y">>, <<r.call>>)
  ELSE IF Len(r.rows) > 0
  THEN AppAnswer("sql", <<"Q","u","e","r","y"," ","r","e","s","u","l","t","s"," ","(">> \o Str(Len(r.rows)) \o <<" ","r","o","w","s",")">>,
                 <<r.call>>)
  ELSE AppAnswer("sql", <<"Y","o","u","r"," ","q","u","e","r","y"," ","r","e","t","u","r","n","e","d"," ","n","o"," ","r","e","s","u","l","t","s",".">>, <<r.call>>)

\* the sql rule (lines 578-697)
sql_rule(u, n, db) == sql_answer(app_execute_query(sql_rule_query(u), n, db))

\* the rule chain of lines 69-1017 for the rule that answers.  The data
\* rules other than the count and the sql rule run the fixed statements of
\* their rule and render the rows; the model records them as one call and
\* leaves their text out.
answer_by_rule(rule, user_input, n, db) ==
  IF rule = "count_data_centers" THEN count_data_centers(n, db)
  ELSE IF rule = "sql" THEN sql_rule(user_input, n, db)
  ELSE IF rule \in CannedRules THEN AppAnswer(rule, << >>, << >>)
  ELSE AppAnswer(rule, << >>,
                 <<Call("rule_queries", << >>, << >>, NoPrompt, db # "ok", << >>)>>)

\* lines 57-1017 of process_input on the lower-cased and stripped input
answer_normalized(user_input, n, db) ==
  IF SplitCount(user_input) <= 3 /\ EqualsAny(user_input, greetings)
  THEN AppAnswer("greeting", <<"H","e","l","l","o","!"," ","I","'","m"," ","y","o","u","r"," ","d","a","t","a"," ","c","e","n","t","e","r"," ","a","s","s","i","s","t","a","n","t",".">>, << >>)
  ELSE IF SplitCount(user_input) <= 3 /\ EqualsAny(user_input, farewells)
  THEN AppAnswer("farewell", <<"G","o","o","d","b","y","e","!">>, << >>)
  ELSE answer_by_rule(first_rule(user_input), user_input, n, db)

\* DataCenterChatbot.process_input
app_process_input(user_input, n, db) ==
  answer_normalized(Strip(Lower(user_input)), n, db)

\* session['chat_history'] is cut to its last entries beyond this length
HistoryCap == 20

\* a cut that keeps the first entries instead of the last ones
Truncate_head(history) ==
  IF Len(history) > HistoryCap THEN SubSeq(history, 1, HistoryCap) ELSE history

\* lines 1053-1054 of chat()
Truncate(history) ==
  IF Len(history) > HistoryCap
  THEN SubSeq(history, Len(history) - HistoryCap + 1, Len(history))
  ELSE history

\* lines 1043-1061 of chat() for the answer a
chat_reply(message, history, a) ==
  [http |-> 200, answer |-> a,
   history |-> Truncate(Append(history, [user |-> message, bot |-> a.text]))]

\* chat(): the HTTP status, the answer and the session history after it
chat(message, history, n, db) ==
  IF message = << >>
  THEN [http |-> 400, answer |-> AppAnswer("none", << >>, << >>),
        history |-> history]
  ELSE chat_reply(message, history, app_process_input(message, n, db))

---------------------------------------------------------------------------
(* Requests                                                                *)

\* the largest data_centers table
MaxRows == 5

\* what users send
Questions ==
  { << >>,
    <<"h","i">>,
    <<"H","e","l","l","o","!">>,
    <<"g","o","o","d"," ","m","o","r","n","i","n","g">>,
    <<"b","y","e">>,
    <<"h","o","w"," ","a","r","e"," ","y","o","u"," ","d","o","i","n","g"," ","t","o","d","a","y"," ","m","y"," ","f","r","i","e","n","d">>,
    <<"l","i","s","t"," ","a","l","l"," ","s","e","r","v","e","r","s">>,
    <<"s","e","l","e","c","t"," ","*"," ","f","r","o","m"," ","d","a","t","a","_","c","e","n","t","e","r","s">>,
    <<"S","e","l","e","c","t"," ","*"," ","F","r","o","m"," ","d","a","t","a","_","c","e","n","t","e","r","s"," ">>,
    <<"S","Q","L",":"," ","S","E","L","E","C","T"," ","*"," ","F","R","O","M"," ","d","a","t","a","_","c","e","n","t","e","r","s">>,
    <<"H","o","w"," ","m","a","n","y"," ","d","a","t","a"," ","c","e","n","t","e","r","s"," ","d","o"," ","w","e"," ","h","a","v","e","?">>,
    <<"s","h","o","w"," ","a","l","l"," ","d","a","t","a"," ","c","e","n","t","e","r","s"," ","p","l","e","a","s","e">>,
    <<"t","e","l","l"," ","m","e"," ","a"," ","j","o","k","e"," ","p","l","e","a","s","e">> }

\* the chunks the text splitter cuts the schema description into
SchemaChunks ==
  [i \in 1..3 |->
     [source |-> "schema_info", text |-> "schema", query |-> << >>,
      index |-> i - 1]]

\* EmbeddingManager.add_schema_info_to_vector_store
add_schema_info_to_vector_store(docs, disk, embed, save) ==
  add_texts_to_vector_store(docs, disk, SchemaChunks, embed, save)

\* outcomes of one POST to the completion API during a request
Http(kind, body) == [kind |-> kind, body |-> body]

\* completions of the SQL generation prompt
ChatSqlBodies ==
  { <<"backtick","backtick","backtick","s","q","l","\n","S","E","L","E","C","T"," ","*"," ","F","R","O","M"," ","d","a","t","a","_","c","e","n","t","e","r","s","\n","backtick","backtick","backtick">>,
    <<"H","e","r","e"," ","i","t"," ","i","s",":"," ","S","E","L","E","C","T"," ","C","O","U","N","T","(","*",")"," ","a","s"," ","c","o","u","n","t"," ","F","R","O","M"," ","d","a","t","a","_","c","e","n","t","e","r","s">>,
    <<"I"," ","c","a","n","n","o","t"," ","a","n","s","w","e","r"," ","t","h","a","t",".">> }

SqlOutcomes ==
  {Http("ok", b) : b \in ChatSqlBodies} \cup {Http("status", << >>)}
AnswerOutcomes == {Http("ok", <<"A","n","s","w","e","r",".">>), Http("status", << >>)}

\* outcomes of embedding and saving in one vector-store add
AddOutcomes ==
  { [embed |-> "ok", save |-> "ok"], [embed |-> "fail", save |-> "ok"],
    [embed |-> "ok", save |-> "fail_clean"],
    [embed |-> "ok", save |-> "fail_partial"] }

Env(db, add, search, llmSql, llmRag, llmFinal) ==
  [db |-> db, embed |-> add.embed, save |-> add.save, search |-> search,
   llmSql |-> llmSql, llmRag |-> llmRag, llmFinal |-> llmFinal]

\* the outcomes of the collaborators during a request that consults the
\* vector-store search (retrieval), the store (store) and the LLM for a query
\* (synthesis); a collaborator that the request does not consult is given
\* its good outcome only
EnvsFor(retrieval, store, synthesis) ==
  { Env(db, add, search, llmSql, llmRag, llmFinal) :
      db \in (IF store THEN DbStates ELSE {"ok"}),
      add \in (IF store THEN AddOutcomes
                        ELSE {[embed |-> "ok", save |-> "ok"]}),
      search \in (IF retrieval THEN {"ok", "fail"} ELSE {"ok"}),
      llmSql \in (IF synthesis THEN SqlOutcomes ELSE {Http("ok", << >>)}),
      llmRag \in (IF retrieval THEN AnswerOutcomes
                             ELSE {Http("ok", <<"A","n","s","w","e","r",".">>)}),
      llmFinal \in AnswerOutcomes }

\* the collaborators a request for q consults, by the class of q: a
\* greeting, a literal query, or a question (db tells whether it holds a
\* database term, rule whether the rule-based conversion knows it)
EnvsByClass(greeting, literal, db, rule) ==
  EnvsFor(~greeting /\ ~literal,
          ~greeting /\ (literal \/ db),
          ~greeting /\ ~literal /\ db /\ ~rule)

RequestEnvs(q) ==
  EnvsByClass(is_greeting(q), is_sql_query(q), is_db_question(q),
              natural_language_to_sql_query(q) # PyNone)

\* exchanges of earlier requests
EarlierConv(k) ==
  [i \in 1..k |-> [user |-> <<"e","a","r","l","i","e","r"," ">> \o Str(i), assistant |-> <<"A","n","s","w","e","r",".">>]]
EarlierSess(k) ==
  [i \in 1..k |-> [user |-> <<"e","a","r","l","i","e","r"," ">> \o Str(i), bot |-> <<"A","n","s","w","e","r",".">>]]

\* what a request returned: the branch taken, whether an exception left the
\* handler, the HTTP status (0 without HTTP), the answer, the RAG result, and
\* the documents and the history the request started with
NoReply ==
  [path |-> "none", raised |-> FALSE, http |-> 0, value |-> PyNone,
   rag |-> NoRag, docsBefore |-> << >>, historyBefore |-> << >>]

\* no chat front end is in use
IdleChat ==
  /\ dbRows = 0
  /\ question = << >>
  /\ front = "none"
  /\ reply = NoReply
  /\ trace = << >>
  /\ convHistory = << >>
  /\ sessHistory = << >>
  /\ pcChat = "idle"
  /\ turn = 0

\* a Conversation over a RAGEngine whose constructor has added the schema
\* chunks to a new vector store (or failed to, which it only logs)
InitConv ==
  /\ front = "conv"
  /\ \E embed \in {"ok", "fail"} :
       LET s == _load_or_create_vector_store(DiskAbsent, "ok", "ok")
           a == add_schema_info_to_vector_store(s.docs, s.disk, embed, "ok") IN
       /\ vsDocs = a.docs
       /\ vsDisk = a.disk
  /\ vsOut = NoVecOut
  /\ convHistory \in {EarlierConv(k) : k \in {0, 3, 5, 6}}
  /\ sessHistory = << >>

\* the Flask application with a session that is new or holds earlier
\* exchanges; it has no vector store
InitApp ==
  /\ front = "app"
  /\ IdleVec
  /\ convHistory = << >>
  /\ sessHistory \in {EarlierSess(k) : k \in {0, HistoryCap - 1, HistoryCap}}

InitChat ==
  /\ dbRows \in 0..MaxRows
  /\ question = << >>
  /\ reply = NoReply
  /\ trace = << >>
  /\ pcChat = "ready"
  /\ turn = 0
  /\ (InitConv \/ InitApp)

\* Conversation.process_input(q) with the collaborators behaving as env
ConvRequest(q, env) ==
  /\ \E o \in {conv_process_input(q, convHistory, vsDocs, vsDisk, dbRows, env)} :
       /\ question' = q
       /\ reply' = [path |-> o.path, raised |-> o.raised, http |-> 0,
                    value |-> o.value, rag |-> o.rag, docsBefore |-> vsDocs,
                    historyBefore |-> convHistory]
       /\ trace' = o.trace
       /\ convHistory' = o.history
       /\ vsDocs' = o.docs
       /\ vsDisk' = o.disk
  /\ pcChat' = "done"
  /\ turn' = turn + 1
  /\ UNCHANGED <<dbRows, front, sessHistory, vsOut>>
  /\ UNCHANGED <<varsSql, varsLLM, writers>>

\* a caller invokes Conversation.process_input(q)
ConvProcessInput ==
  /\ front = "conv"
  /\ pcChat = "ready"
  /\ \E q \in Questions : \E env \in RequestEnvs(q) : ConvRequest(q, env)

\* POST /chat with {"message": q} while the store behaves as db
AppRequest(q, db) ==
  /\ \E o \in {chat(q, sessHistory, dbRows, db)} :
       /\ question' = q
       /\ reply' = [path |-> o.answer.rule, raised |-> FALSE, http |-> o.http,
                    value |-> o.answer.text, rag |-> NoRag,
                    docsBefore |-> << >>, historyBefore |-> sessHistory]
       /\ trace' = o.answer.calls
       /\ sessHistory' = o.history
  /\ pcChat' = "done"
  /\ turn' = turn + 1
  /\ UNCHANGED <<dbRows, front, convHistory>>
  /\ UNCHANGED <<varsSql, varsLLM, varsVec, writers>>

\* a browser posts {"message": q} to /chat
AppChat ==
  /\ front = "app"
  /\ pcChat = "ready"
  /\ \E q \in Questions : \E db \in DbStates : AppRequest(q, db)

NextChat == ConvProcessInput \/ AppChat

---------------------------------------------------------------------------
(* Dialogues: one request after the other on the same history             *)

\* the longest dialogue
MaxTurns == 22

\* the text of the n-th request of a dialogue
TurnQuestion(n) == <<"e","a","r","l","i","e","r"," ">> \o Str(n)

\* all collaborators work
GoodEnv ==
  Env("ok", [embed |-> "ok", save |-> "ok"], "ok", Http("ok", << >>),
      Http("ok", <<"A","n","s","w","e","r",".">>), Http("ok", <<"A","n","s","w","e","r",".">>))

\* a new Conversation or a new session
InitDialogue ==
  /\ InitChat
  /\ convHistory = << >>
  /\ sessHistory = << >>

\* the next call of Conversation.process_input on the same Conversation
ConvTurn ==
  /\ front = "conv"
  /\ pcChat \in {"ready", "done"}
  /\ turn < MaxTurns
  /\ ConvRequest(TurnQuestion(turn + 1), GoodEnv)

\* the next POST /chat of the same session
AppTurn ==
  /\ front = "app"
  /\ pcChat \in {"ready", "done"}
  /\ turn < MaxTurns
  /\ \E db \in DbStates : AppRequest(TurnQuestion(turn + 1), db)

\* POST /clear_history
clear_history ==
  /\ front = "app"
  /\ pcChat = "done"
  /\ sessHistory' = << >>
  /\ UNCHANGED <<dbRows, question, front, reply, trace, convHistory, pcChat,
                 turn>>
  /\ UNCHANGED <<varsSql, varsLLM, varsVec, writers>>

NextDialogue == ConvTurn \/ AppTurn \/ clear_history

---------------------------------------------------------------------------
(* The example questions of the help response                              *)

\* the questions listed by the help rule (app.py, lines 831-843)
HelpExamples ==
  { <<"H","o","w"," ","m","a","n","y"," ","d","a","t","a"," ","c","e","n","t","e","r","s"," ","d","o"," ","w","e"," ","h","a","v","e","?">>,
    <<"L","i","s","t"," ","a","l","l"," ","d","a","t","a"," ","c","e","n","t","e","r","s">>,
    <<"T","e","l","l"," ","m","e"," ","a","b","o","u","t"," ","t","h","e"," ","S","e","a","t","t","l","e"," ","d","a","t","a"," ","c","e","n","t","e","r">>,
    <<"W","h","i","c","h"," ","c","i","t","i","e","s"," ","h","a","v","e"," ","d","a","t","a"," ","c","e","n","t","e","r","s","?">>,
    <<"H","o","w"," ","m","a","n","y"," ","r","a","c","k","s"," ","a","r","e"," ","i","n"," ","e","a","c","h"," ","d","a","t","a"," ","c","e","n","t","e","r","?">>,
    <<"L","i","s","t"," ","a","l","l"," ","s","e","r","v","e","r","s"," ","a","l","o","n","g"," ","w","i","t","h"," ","t","h","e","i","r"," ","r","a","c","k"," ","l","a","b","e","l"," ","a","n","d"," ","d","a","t","a"," ","c","e","n","t","e","r"," ","n","a","m","e">>,
    <<"W","h","i","c","h"," ","s","e","r","v","e","r","s"," ","a","r","e"," ","r","u","n","n","i","n","g"," ","U","b","u","n","t","u"," ","O","S","?">>,
    <<"W","h","a","t"," ","s","e","r","v","e","r"," ","m","o","d","e","l","s"," ","d","o"," ","w","e"," ","u","s","e","?">>,
    <<"W","h","a","t"," ","i","s"," ","o","u","r"," ","t","o","t","a","l"," ","s","e","r","v","e","r"," ","c","a","p","a","c","i","t","y","?">>,
    <<"S","Q","L",":"," ","S","E","L","E","C","T"," ","*"," ","F","R","O","M"," ","d","a","t","a","_","c","e","n","t","e","r","s">>,
    <<"S","Q","L",":"," ","S","E","L","E","C","T"," ","*"," ","F","R","O","M"," ","s","e","r","v","e","r","s"," ","W","H","E","R","E"," ","o","s"," ","L","I","K","E"," ","'","U","b","u","n","t","u","%","'">> }

\* the Flask application with a new or an older session
InitHelp ==
  /\ InitChat
  /\ front = "app"

\* a browser posts one of the example questions to /chat
AskExample ==
  /\ front = "app"
  /\ pcChat = "ready"
  /\ \E q \in HelpExamples : \E db \in DbStates : AppRequest(q, db)

NextHelp == AskExample

---------------------------------------------------------------------------
(* RAGEngine.generate_sql_query on one completion                          *)

\* a question that no pattern of natural_language_to_sql_query matches
SynthQuestion == <<"H","o","w"," ","m","a","n","y"," ","d","a","t","a"," ","c","e","n","t","e","r","s"," ","d","o"," ","w","e"," ","h","a","v","e","?">>

\* fragments the completions of the SQL generation prompt are built of
SynthFrags ==
  { <<"backtick","backtick","backtick","s","q","l">>, <<"backtick","backtick","backtick">>, <<"S","E","L","E","C","T"," ","1">>, <<"s","e","l","e","c","t"," ","2">>, <<"S","e","l","e","c","t"," ","3">>, <<"\n">>, <<"x"," ">> }

MaxSynthFrags == 4

SynthTexts == {Concat(fs) : fs \in SeqsUpTo(SynthFrags, MaxSynthFrags)}

SynthOutcomes ==
  {Http(k, << >>) : k \in HttpKinds \ {"ok"}}
    \cup {Http("ok", b) : b \in SynthTexts}

InitSynth ==
  /\ backend \in [1..1 -> SynthOutcomes]
  /\ maxRetries = 0
  /\ llmOp = "none"
  /\ llmOut = NoOut

\* the outcome of generate_sql_query as the LLM variables record it
SynthOut(g) ==
  [raised |-> FALSE, value |-> g.query, calls |-> IF g.llm THEN 1 ELSE 0,
   sleeps |-> << >>]

\* a caller invokes generate_sql_query(question)
GenerateSqlQueryCall ==
  /\ llmOp = "none"
  /\ llmOp' = "generate_sql_query"
  /\ llmOut' = SynthOut(generate_sql_query(SynthQuestion, backend[1]))
  /\ UNCHANGED <<backend, maxRetries>>
  /\ UNCHANGED varsNotLLM

NextSynth == GenerateSqlQueryCall

---------------------------------------------------------------------------
(* QueryHandler and QuestionProcessor                                     *)

\* str.upper() on one character
UpperChar(c) ==
  IF \E i \in 1..26 : LowerLetters[i] = c
  THEN UpperLetters[CHOOSE i \in 1..26 : LowerLetters[i] = c]
  ELSE c

Letters == {LowerLetters[i] : i \in 1..26} \cup {UpperLetters[i] : i \in 1..26}

\* str.title(): a letter after a non-letter in upper case, the others in
\* lower case
Title(s) ==
  [i \in 1..Len(s) |->
     IF i = 1 \/ s[i - 1] \notin Letters THEN UpperChar(s[i])
     ELSE LowerChar(s[i])]

\* the rest of an alternative of a pattern: each further literal after at
\* least one character other than a newline ('.+'), e being the index after
\* the literal before
RECURSIVE MatchRest(_, _, _)
MatchRest(s, parts, e) ==
  \/ parts = << >>
  \/ \E p \in (e + 1)..(Len(s) - Len(Head(parts)) + 1) :
       /\ OccursAt(s, Head(parts), p)
       /\ \A j \in e..(p - 1) : s[j] # "\n"
       /\ MatchRest(s, Tail(parts), p + Len(Head(parts)))

\* an alternative literal.+literal... occurs somewhere in s
MatchAlt(s, parts) ==
  \E p \in 1..(Len(s) - Len(Head(parts)) + 1) :
    /\ OccursAt(s, Head(parts), p)
    /\ MatchRest(s, Tail(parts), p + Len(Head(parts)))

\* pattern.search(s) finds a match, the pattern given by its alternatives
search(pattern, s) == \E i \in 1..Len(pattern) : MatchAlt(s, pattern[i])

\* the patterns of QuestionProcessor.__init__: the alternatives of each, an
\* alternative being the literals that '.+' separates
patterns ==
  [ city_data_center_pattern |->
      << <<<<"w","h","i","c","h"," ","c","i","t","i","e","s">>>>,
         <<<<"w","h","a","t"," ","c","i","t","i","e","s">>>>,
         <<<<"c","i","t","i","e","s">>, <<"d","a","t","a"," ","c","e","n","t","e","r","s">>>>,
         <<<<"w","h","i","c","h"," ","c","i","t","y">>>> >>,
    country_data_center_pattern |->
      << <<<<"h","o","w"," ","m","a","n","y"," ","d","a","t","a"," ","c","e","n","t","e","r","s">>, <<"e","a","c","h"," ","c","o","u","n","t","r","y">>>>,
         <<<<"d","a","t","a"," ","c","e","n","t","e","r","s">>, <<"b","y"," ","c","o","u","n","t","r","y">>>>,
         <<<<"c","o","u","n","t","r","y">>, <<"d","a","t","a"," ","c","e","n","t","e","r","s">>>> >>,
    list_data_centers_pattern |->
      << <<<<"l","i","s","t"," ","a","l","l"," ","d","a","t","a"," ","c","e","n","t","e","r","s">>>>,
         <<<<"s","h","o","w"," ","a","l","l"," ","d","a","t","a"," ","c","e","n","t","e","r","s">>>>,
         <<<<"a","l","l"," ","d","a","t","a"," ","c","e","n","t","e","r","s">>, <<"c","i","t","y">>>>,
         <<<<"a","l","l"," ","d","a","t","a"," ","c","e","n","t","e","r","s">>, <<"c","o","u","n","t","r","y">>>> >>,
    racks_per_data_center_pattern |->
      << <<<<"h","o","w"," ","m","a","n","y"," ","r","a","c","k","s">>>>,
         <<<<"r","a","c","k","s"," ","i","n"," ","e","a","c","h">>>>,
         <<<<"r","a","c","k","s">>, <<"d","a","t","a"," ","c","e","n","t","e","r">>>> >>,
    servers_with_racks_pattern |->
      << <<<<"l","i","s","t"," ","a","l","l"," ","s","e","r","v","e","r","s">>>>,
         <<<<"s","e","r","v","e","r","s"," ","w","i","t","h">>, <<"r","a","c","k">>>>,
         <<<<"s","e","r","v","e","r","s">>, <<"d","a","t","a"," ","c","e","n","t","e","r">>>> >>,
    servers_with_os_pattern |->
      << <<<<"s","e","r","v","e","r","s">>, <<"u","b","u","n","t","u">>>>,
         <<<<"s","e","r","v","e","r","s"," ","r","u","n","n","i","n","g">>>>,
         <<<<"w","h","i","c","h"," ","o","s">>>>,
         <<<<"r","u","n","n","i","n","g"," ","u","b","u","n","t","u">>>>,
         <<<<"u","b","u","n","t","u"," ","o","s">>>> >>,
    empty_racks_pattern |->
      << <<<<"e","m","p","t","y"," ","r","a","c","k">>>>,
         <<<<"r","a","c","k","s">>, <<"n","o"," ","s","e","r","v","e","r","s">>>>,
         <<<<"r","a","c","k","s">>, <<"w","i","t","h","o","u","t"," ","s","e","r","v","e","r","s">>>>,
         <<<<"r","a","c","k","s"," ","d","o"," ","n","o","t"," ","h","a","v","e">>>> >>,
    list_network_devices_pattern |->
      << <<<<"l","i","s","t">>, <<"n","e","t","w","o","r","k">>>>,
         <<<<"s","h","o","w">>, <<"n","e","t","w","o","r","k">>>>,
         <<<<"n","e","t","w","o","r","k"," ","d","e","v","i","c","e","s">>, <<"d","a","t","a"," ","c","e","n","t","e","r">>>> >>,
    network_devices_count_pattern |->
      << <<<<"h","o","w"," ","m","a","n","y"," ","n","e","t","w","o","r","k">>>>,
         <<<<"c","o","u","n","t">>, <<"n","e","t","w","o","r","k">>>>,
         <<<<"n","e","t","w","o","r","k">>, <<"c","o","u","n","t">>>> >>,
    network_devices_location_pattern |->
      << <<<<"i","p">>, <<"n","e","t","w","o","r","k">>, <<"l","o","n","d","o","n">>>>,
         <<<<"n","e","t","w","o","r","k">>, <<"i","n"," ","l","o","n","d","o","n">>>>,
         <<<<"l","o","n","d","o","n">>, <<"n","e","t","w","o","r","k">>>>,
         <<<<"i","p">>, <<"a","d","d","r","e","s","s">>, <<"l","o","n","d","o","n">>>> >>,
    maintenance_by_technician_pattern |->
      << <<<<"m","a","i","n","t","e","n","a","n","c","e">>, <<"j","o","h","n">>>>,
         <<<<"j","o","h","n"," ","d","o","e">>>>,
         <<<<"p","e","r","f","o","r","m","e","d"," ","b","y">>>>,
         <<<<"j","a","n","e"," ","s","m","i","t","h">>>> >>,
    maintenance_count_pattern |->
      << <<<<"m","a","i","n","t","e","n","a","n","c","e"," ","t","a","s","k","s">>, <<"s","e","r","v","e","r">>, <<"n","e","t","w","o","r","k">>>>,
         <<<<"h","o","w"," ","m","a","n","y"," ","m","a","i","n","t","e","n","a","n","c","e">>>>,
         <<<<"m","a","i","n","t","e","n","a","n","c","e"," ","c","o","u","n","t">>>> >>,
    server_maintenance_year_pattern |->
      << <<<<"s","e","r","v","e","r">>, <<"m","a","i","n","t","e","n","a","n","c","e">>, <<"2","0","2","3">>>>,
         <<<<"m","a","i","n","t","e","n","a","n","c","e">>, <<"2","0","2","3">>>>,
         <<<<"2","0","2","3">>, <<"m","a","i","n","t","e","n","a","n","c","e">>>> >>,
    maintenance_with_entity_pattern |->
      << <<<<"m","a","i","n","t","e","n","a","n","c","e"," ","l","o","g","s">>, <<"c","o","r","r","e","s","p","o","n","d","i","n","g">>>>,
         <<<<"l","i","s","t">>, <<"m","a","i","n","t","e","n","a","n","c","e">>>> >>,
    servers_by_country_pattern |->
      << <<<<"s","e","r","v","e","r">>, <<"e","a","c","h"," ","c","o","u","n","t","r","y">>>>,
         <<<<"s","e","r","v","e","r","s">>, <<"c","o","u","n","t","r","y">>>>,
         <<<<"t","o","t","a","l">>, <<"s","e","r","v","e","r","s">>, <<"c","o","u","n","t","r","y">>>> >>,
    data_centers_both_pattern |->
      << <<<<"d","a","t","a"," ","c","e","n","t","e","r","s">>, <<"b","o","t","h">>>>,
         <<<<"b","o","t","h"," ","s","e","r","v","e","r","s">>, <<"n","e","t","w","o","r","k">>>>,
         <<<<"s","e","r","v","e","r","s"," ","a","n","d"," ","n","e","t","w","o","r","k">>>> >>,
    recent_maintenance_pattern |->
      << <<<<"m","o","s","t"," ","r","e","c","e","n","t">>>>,
         <<<<"l","a","t","e","s","t"," ","m","a","i","n","t","e","n","a","n","c","e">>>>,
         <<<<"r","e","c","e","n","t">>, <<"m","a","i","n","t","e","n","a","n","c","e">>>> >>,
    no_maintenance_pattern |->
      << <<<<"n","e","v","e","r"," ","h","a","d"," ","m","a","i","n","t","e","n","a","n","c","e">>>>,
         <<<<"w","i","t","h","o","u","t"," ","m","a","i","n","t","e","n","a","n","c","e">>>>,
         <<<<"n","o"," ","m","a","i","n","t","e","n","a","n","c","e">>>> >> ]

\* the text of the exception that the database session raises
QueryError == <<"n","o"," ","s","u","c","h"," ","t","a","b","l","e">>

\* QueryHandler.execute_query: the n rows of the query, or one row with the
\* key 'error' when the session raises
handler_execute_query(n, db) ==
  IF db = "down" THEN <<"error">> ELSE [i \in 1..n |-> "row"]

\* what a method of QueryHandler returns (raised = "") or raises
HandlerResult(raised, success, rows, error) ==
  [raised |-> raised, success |-> success, rows |-> rows, error |-> error]

\* the test each method of QueryHandler applies to its results before it
\* reports success, and the error text it returns otherwise (<< >> where
\* the method takes the text from results[0] or never gets that far):
\*   "checked"   results and 'error' not in results[0]
\*   "not None"  results is not None
\*   "nonempty"  results and len(results) > 0 and 'error' not in results[0]
handlers ==
  [ get_cities_with_data_centers |->
      [test |-> "checked", error |-> << >>],
    get_data_centers_by_country |->
      [test |-> "checked", error |-> << >>],
    list_data_centers_with_locations |->
      [test |-> "checked", error |-> << >>],
    get_racks_by_data_center |->
      [test |-> "checked", error |-> << >>],
    list_servers_with_racks_and_data_centers |->
      [test |-> "checked", error |-> << >>],
    get_servers_with_os |->
      [test |-> "not None", error |-> << >>],
    get_empty_racks |->
      [test |-> "not None", error |-> << >>],
    list_network_devices_with_data_centers |->
      [test |-> "checked", error |-> << >>],
    get_network_devices_by_data_center |->
      [test |-> "checked", error |-> << >>],
    find_network_devices_by_location |->
      [test |-> "not None", error |-> << >>],
    get_maintenance_by_technician |->
      [test |-> "not None", error |-> << >>],
    get_maintenance_count_by_entity_type |->
      [test |-> "checked", error |-> << >>],
    get_server_maintenance_by_year |->
      [test |-> "not None", error |-> << >>],
    list_maintenance_logs_with_entity_names |->
      [test |-> "checked", error |-> << >>],
    get_server_count_by_country |->
      [test |-> "checked", error |-> << >>],
    get_data_centers_with_both_servers_and_network_devices |->
      [test |-> "not None", error |-> << >>],
    get_most_recent_server_maintenance |->
      [test |-> "nonempty", error |-> <<"E","r","r","o","r"," ","f","i","n","d","i","n","g"," ","m","o","s","t"," ","r","e","c","e","n","t"," ","s","e","r","v","e","r"," ","m","a","i","n","t","e","n","a","n","c","e">>],
    get_entities_without_maintenance |->
      [test |-> "not None", error |-> << >>] ]

\* the method h of QueryHandler on the results of its query
call_handler(h, results) ==
  IF handlers[h].test = "not None"
  THEN \* always holds: execute_query returns a list
       HandlerResult("", TRUE, results, << >>)
  ELSE IF results # << >> /\ results[1] # "error"
  THEN HandlerResult("", TRUE, results, << >>)
  ELSE IF handlers[h].test = "nonempty"
  THEN HandlerResult("", FALSE, << >>, handlers[h].error)
  ELSE IF results = << >>
  THEN \* results[0].get('error', 'Unknown error') on an empty list
       HandlerResult("IndexError", FALSE, << >>, << >>)
  ELSE HandlerResult("", FALSE, << >>, QueryError)

\* what a formatter returns (exc = "") or raises
FormatResult(exc, text) == [exc |-> exc, text |-> text]

\* the formatters: the method of QueryHandler each one calls, the fixed
\* first part of its answer over rows, the text for no rows (before and
\* after the argument of the formatter; none for the most recent
\* maintenance) and the start of its apology; title tells whether the
\* argument is shown with title()
formatters ==
  [ _format_cities_with_data_centers |->
      [handler |-> "get_cities_with_data_centers",
       heading |-> <<"W","e"," ","h","a","v","e"," ","d","a","t","a"," ","c","e","n","t","e","r","s"," ","i","n"," ">>,
       has_none |-> TRUE, none |-> <<<<"W","e"," ","d","o","n","'","t"," ","h","a","v","e"," ","d","a","t","a"," ","c","e","n","t","e","r","s"," ","i","n"," ","a","n","y"," ","c","i","t","i","e","s"," ","y","e","t",".">>, << >>>>,
       sorry |-> <<"S","o","r","r","y",","," ","I"," ","c","o","u","l","d","n","'","t"," ","r","e","t","r","i","e","v","e"," ","t","h","e"," ","l","i","s","t"," ","o","f"," ","c","i","t","i","e","s",":"," ">>,
       title |-> FALSE],
    _format_data_centers_by_country |->
      [handler |-> "get_data_centers_by_country",
       heading |-> <<"H","e","r","e","'","s"," ","t","h","e"," ","n","u","m","b","e","r"," ","o","f"," ","d","a","t","a"," ","c","e","n","t","e","r","s"," ","i","n"," ","e","a","c","h"," ","c","o","u","n","t","r","y",":">>,
       has_none |-> TRUE, none |-> <<<<"W","e"," ","d","o","n","'","t"," ","h","a","v","e"," ","a","n","y"," ","d","a","t","a"," ","c","e","n","t","e","r","s"," ","y","e","t",".">>, << >>>>,
       sorry |-> <<"S","o","r","r","y",","," ","I"," ","c","o","u","l","d","n","'","t"," ","r","e","t","r","i","e","v","e"," ","t","h","e"," ","d","a","t","a"," ","c","e","n","t","e","r"," ","c","o","u","n","t","s",":"," ">>,
       title |-> FALSE],
    _format_data_centers_with_locations |->
      [handler |-> "list_data_centers_with_locations",
       heading |-> <<"H","e","r","e"," ","a","r","e"," ","a","l","l"," ","o","u","r"," ","d","a","t","a"," ","c","e","n","t","e","r","s"," ","w","i","t","h"," ","t","h","e","i","r"," ","l","o","c","a","t","i","o","n","s",":">>,
       has_none |-> TRUE, none |-> <<<<"W","e"," ","d","o","n","'","t"," ","h","a","v","e"," ","a","n","y"," ","d","a","t","a"," ","c","e","n","t","e","r","s"," ","y","e","t",".">>, << >>>>,
       sorry |-> <<"S","o","r","r","y",","," ","I"," ","c","o","u","l","d","n","'","t"," ","r","e","t","r","i","e","v","e"," ","t","h","e"," ","d","a","t","a"," ","c","e","n","t","e","r","s",":"," ">>,
       title |-> FALSE],
    _format_racks_by_data_center |->
      [handler |-> "get_racks_by_data_center",
       heading |-> <<"H","e","r","e","'","s"," ","t","h","e"," ","n","u","m","b","e","r"," ","o","f"," ","r","a","c","k","s"," ","i","n"," ","e","a","c","h"," ","d","a","t","a"," ","c","e","n","t","e","r",":">>,
       has_none |-> TRUE, none |-> <<<<"W","e"," ","d","o","n","'","t"," ","h","a","v","e"," ","a","n","y"," ","r","a","c","k","s"," ","i","n"," ","o","u","r"," ","d","a","t","a"," ","c","e","n","t","e","r","s"," ","y","e","t",".">>, << >>>>,
       sorry |-> <<"S","o","r","r","y",","," ","I"," ","c","o","u","l","d","n","'","t"," ","r","e","t","r","i","e","v","e"," ","t","h","e"," ","r","a","c","k"," ","c","o","u","n","t","s",":"," ">>,
       title |-> FALSE],
    _format_servers_with_racks_and_data_centers |->
      [handler |-> "list_servers_with_racks_and_data_centers",
       heading |-> <<"H","e","r","e"," ","a","r","e"," ","a","l","l"," ","o","u","r"," ","s","e","r","v","e","r","s"," ","w","i","t","h"," ","t","h","e","i","r"," ","r","a","c","k"," ","a","n","d"," ","d","a","t","a"," ","c","e","n","t","e","r"," ","i","n","f","o","r","m","a","t","i","o","n",":">>,
       has_none |-> TRUE, none |-> <<<<"W","e"," ","d","o","n","'","t"," ","h","a","v","e"," ","a","n","y"," ","s","e","r","v","e","r","s"," ","i","n"," ","o","u","r"," ","d","a","t","a"," ","c","e","n","t","e","r","s"," ","y","e","t",".">>, << >>>>,
       sorry |-> <<"S","o","r","r","y",","," ","I"," ","c","o","u","l","d","n","'","t"," ","r","e","t","r","i","e","v","e"," ","t","h","e"," ","s","e","r","v","e","r"," ","i","n","f","o","r","m","a","t","i","o","n",":"," ">>,
       title |-> FALSE],
    _format_servers_with_os |->
      [handler |-> "get_servers_with_os",
       heading |-> <<"H","e","r","e"," ","a","r","e"," ","t","h","e"," ","s","e","r","v","e","r","s"," ","r","u","n","n","i","n","g"," ">>,
       has_none |-> TRUE, none |-> <<<<"W","e"," ","d","o","n","'","t"," ","h","a","v","e"," ","a","n","y"," ","s","e","r","v","e","r","s"," ","r","u","n","n","i","n","g"," ">>, <<" ","y","e","t",".">>>>,
       sorry |-> <<"S","o","r","r","y",","," ","I"," ","c","o","u","l","d","n","'","t"," ","r","e","t","r","i","e","v","e"," ","t","h","e"," ","s","e","r","v","e","r"," ","i","n","f","o","r","m","a","t","i","o","n",":"," ">>,
       title |-> TRUE],
    _format_empty_racks |->
      [handler |-> "get_empty_racks",
       heading |-> <<"H","e","r","e"," ","a","r","e"," ","t","h","e"," ","r","a","c","k","s"," ","t","h","a","t"," ","d","o","n","'","t"," ","h","a","v","e"," ","a","n","y"," ","s","e","r","v","e","r","s",":">>,
       has_none |-> TRUE, none |-> <<<<"A","l","l"," ","r","a","c","k","s"," ","c","u","r","r","e","n","t","l","y"," ","h","a","v","e"," ","s","e","r","v","e","r","s"," ","i","n","s","t","a","l","l","e","d",".">>, << >>>>,
       sorry |-> <<"S","o","r","r","y",","," ","I"," ","c","o","u","l","d","n","'","t"," ","c","h","e","c","k"," ","f","o","r"," ","e","m","p","t","y"," ","r","a","c","k","s",":"," ">>,
       title |-> FALSE],
    _format_network_devices_with_data_centers |->
      [handler |-> "list_network_devices_with_data_centers",
       heading |-> <<"H","e","r","e"," ","a","r","e"," ","a","l","l"," ","o","u","r"," ","n","e","t","w","o","r","k"," ","d","e","v","i","c","e","s"," ","w","i","t","h"," ","t","h","e","i","r"," ","d","a","t","a"," ","c","e","n","t","e","r"," ","l","o","c","a","t","i","o","n","s",":">>,
       has_none |-> TRUE, none |-> <<<<"W","e"," ","d","o","n","'","t"," ","h","a","v","e"," ","a","n","y"," ","n","e","t","w","o","r","k"," ","d","e","v","i","c","e","s"," ","i","n"," ","o","u","r"," ","d","a","t","a"," ","c","e","n","t","e","r","s"," ","y","e","t",".">>, << >>>>,
       sorry |-> <<"S","o","r","r","y",","," ","I"," ","c","o","u","l","d","n","'","t"," ","r","e","t","r","i","e","v","e"," ","t","h","e"," ","n","e","t","w","o","r","k"," ","d","e","v","i","c","e"," ","i","n","f","o","r","m","a","t","i","o","n",":"," ">>,
       title |-> FALSE],
    _format_network_devices_by_data_center |->
      [handler |-> "get_network_devices_by_data_center",
       heading |-> <<"H","e","r","e","'","s"," ","t","h","e"," ","n","u","m","b","e","r"," ","o","f"," ","n","e","t","w","o","r","k"," ","d","e","v","i","c","e","s"," ","i","n"," ","e","a","c","h"," ","d","a","t","a"," ","c","e","n","t","e","r",":">>,
       has_none |-> TRUE, none |-> <<<<"W","e"," ","d","o","n","'","t"," ","h","a","v","e"," ","a","n","y"," ","n","e","t","w","o","r","k"," ","d","e","v","i","c","e","s"," ","i","n"," ","o","u","r"," ","d","a","t","a"," ","c","e","n","t","e","r","s"," ","y","e","t",".">>, << >>>>,
       sorry |-> <<"S","o","r","r","y",","," ","I"," ","c","o","u","l","d","n","'","t"," ","r","e","t","r","i","e","v","e"," ","t","h","e"," ","n","e","t","w","o","r","k"," ","d","e","v","i","c","e"," ","c","o","u","n","t","s",":"," ">>,
       title |-> FALSE],
    _format_network_devices_by_location |->
      [handler |-> "find_network_devices_by_location",
       heading |-> <<"H","e","r","e"," ","a","r","e"," ","t","h","e"," ","n","e","t","w","o","r","k"," ","d","e","v","i","c","e","s"," ","i","n"," ">>,
       has_none |-> TRUE, none |-> <<<<"W","e"," ","d","o","n","'","t"," ","h","a","v","e"," ","a","n","y"," ","n","e","t","w","o","r","k"," ","d","e","v","i","c","e","s"," ","i","n"," ">>, <<" ","y","e","t",".">>>>,
       sorry |-> <<"S","o","r","r","y",","," ","I"," ","c","o","u","l","d","n","'","t"," ","r","e","t","r","i","e","v","e"," ","t","h","e"," ","n","e","t","w","o","r","k"," ","d","e","v","i","c","e"," ","i","n","f","o","r","m","a","t","i","o","n",":"," ">>,
       title |-> FALSE],
    _format_maintenance_by_technician |->
      [handler |-> "get_maintenance_by_technician",
       heading |-> <<"H","e","r","e"," ","a","r","e"," ","t","h","e"," ","m","a","i","n","t","e","n","a","n","c","e"," ","t","a","s","k","s"," ","p","e","r","f","o","r","m","e","d"," ","b","y"," ">>,
       has_none |-> TRUE, none |-> <<<<"N","o"," ","m","a","i","n","t","e","n","a","n","c","e"," ","h","a","s"," ","b","e","e","n"," ","p","e","r","f","o","r","m","e","d"," ","b","y"," ">>, <<" ","y","e","t",".">>>>,
       sorry |-> <<"S","o","r","r","y",","," ","I"," ","c","o","u","l","d","n","'","t"," ","r","e","t","r","i","e","v","e"," ","t","h","e"," ","m","a","i","n","t","e","n","a","n","c","e"," ","i","n","f","o","r","m","a","t","i","o","n",":"," ">>,
       title |-> FALSE],
    _format_maintenance_count_by_entity_type |->
      [handler |-> "get_maintenance_count_by_entity_type",
       heading |-> <<"H","e","r","e","'","s"," ","t","h","e"," ","b","r","e","a","k","d","o","w","n"," ","o","f"," ","m","a","i","n","t","e","n","a","n","c","e"," ","t","a","s","k","s"," ","b","y"," ","e","n","t","i","t","y"," ","t","y","p","e",":">>,
       has_none |-> TRUE, none |-> <<<<"N","o"," ","m","a","i","n","t","e","n","a","n","c","e"," ","t","a","s","k","s"," ","h","a","v","e"," ","b","e","e","n"," ","r","e","c","o","r","d","e","d"," ","y","e","t",".">>, << >>>>,
       sorry |-> <<"S","o","r","r","y",","," ","I"," ","c","o","u","l","d","n","'","t"," ","r","e","t","r","i","e","v","e"," ","t","h","e"," ","m","a","i","n","t","e","n","a","n","c","e"," ","c","o","u","n","t","s",":"," ">>,
       title |-> FALSE],
    _format_server_maintenance_by_year |->
      [handler |-> "get_server_maintenance_by_year",
       heading |-> <<"H","e","r","e"," ","a","r","e"," ","t","h","e"," ","s","e","r","v","e","r","s"," ","t","h","a","t"," ","h","a","d"," ","m","a","i","n","t","e","n","a","n","c","e"," ","i","n"," ">>,
       has_none |-> TRUE, none |-> <<<<"N","o"," ","s","e","r","v","e","r"," ","m","a","i","n","t","e","n","a","n","c","e"," ","w","a","s"," ","p","e","r","f","o","r","m","e","d"," ","i","n"," ">>, <<".">>>>,
       sorry |-> <<"S","o","r","r","y",","," ","I"," ","c","o","u","l","d","n","'","t"," ","r","e","t","r","i","e","v","e"," ","t","h","e"," ","m","a","i","n","t","e","n","a","n","c","e"," ","i","n","f","o","r","m","a","t","i","o","n",":"," ">>,
       title |-> FALSE],
    _format_maintenance_logs_with_entity_names |->
      [handler |-> "list_maintenance_logs_with_entity_names",
       heading |-> <<"H","e","r","e"," ","a","r","e"," ","a","l","l"," ","m","a","i","n","t","e","n","a","n","c","e"," ","l","o","g","s"," ","w","i","t","h"," ","t","h","e","i","r"," ","c","o","r","r","e","s","p","o","n","d","i","n","g"," ","e","n","t","i","t","y"," ","n","a","m","e","s",":">>,
       has_none |-> TRUE, none |-> <<<<"N","o"," ","m","a","i","n","t","e","n","a","n","c","e"," ","l","o","g","s"," ","h","a","v","e"," ","b","e","e","n"," ","r","e","c","o","r","d","e","d"," ","y","e","t",".">>, << >>>>,
       sorry |-> <<"S","o","r","r","y",","," ","I"," ","c","o","u","l","d","n","'","t"," ","r","e","t","r","i","e","v","e"," ","t","h","e"," ","m","a","i","n","t","e","n","a","n","c","e"," ","l","o","g","s",":"," ">>,
       title |-> FALSE],
    _format_server_count_by_country |->
      [handler |-> "get_server_count_by_country",
       heading |-> <<"H","e","r","e","'","s"," ","t","h","e"," ","t","o","t","a","l"," ","n","u","m","b","e","r"," ","o","f"," ","s","e","r","v","e","r","s"," ","i","n"," ","e","a","c","h"," ","c","o","u","n","t","r","y",":">>,
       has_none |-> TRUE, none |-> <<<<"W","e"," ","d","o","n","'","t"," ","h","a","v","e"," ","a","n","y"," ","s","e","r","v","e","r","s"," ","d","e","p","l","o","y","e","d"," ","y","e","t",".">>, << >>>>,
       sorry |-> <<"S","o","r","r","y",","," ","I"," ","c","o","u","l","d","n","'","t"," ","r","e","t","r","i","e","v","e"," ","t","h","e"," ","s","e","r","v","e","r"," ","c","o","u","n","t","s",":"," ">>,
       title |-> FALSE],
    _format_data_centers_with_both |->
      [handler |-> "get_data_centers_with_both_servers_and_network_devices",
       heading |-> <<"H","e","r","e"," ","a","r","e"," ","t","h","e"," ","d","a","t","a"," ","c","e","n","t","e","r","s"," ","t","h","a","t"," ","h","a","v","e"," ","b","o","t","h"," ","s","e","r","v","e","r","s"," ","a","n","d"," ","n","e","t","w","o","r","k"," ","d","e","v","i","c","e","s",":">>,
       has_none |-> TRUE, none |-> <<<<"N","o","n","e"," ","o","f"," ","o","u","r"," ","d","a","t","a"," ","c","e","n","t","e","r","s"," ","c","u","r","r","e","n","t","l","y"," ","h","a","v","e"," ","b","o","t","h"," ","s","e","r","v","e","r","s"," ","a","n","d"," ","n","e","t","w","o","r","k"," ","d","e","v","i","c","e","s",".">>, << >>>>,
       sorry |-> <<"S","o","r","r","y",","," ","I"," ","c","o","u","l","d","n","'","t"," ","r","e","t","r","i","e","v","e"," ","t","h","e"," ","d","a","t","a"," ","c","e","n","t","e","r"," ","i","n","f","o","r","m","a","t","i","o","n",":"," ">>,
       title |-> FALSE],
    _format_most_recent_server_maintenance |->
      [handler |-> "get_most_recent_server_maintenance",
       heading |-> <<"T","h","e"," ","m","o","s","t"," ","r","e","c","e","n","t"," ","s","e","r","v","e","r"," ","m","a","i","n","t","e","n","a","n","c","e"," ","w","a","s"," ","p","e","r","f","o","r","m","e","d"," ","o","n"," ">>,
       has_none |-> FALSE, none |-> <<<< >>, << >>>>,
       sorry |-> <<"S","o","r","r","y",","," ","I"," ","c","o","u","l","d","n","'","t"," ","r","e","t","r","i","e","v","e"," ","t","h","e"," ","m","a","i","n","t","e","n","a","n","c","e"," ","i","n","f","o","r","m","a","t","i","o","n",":"," ">>,
       title |-> FALSE],
    _format_entities_without_maintenance |->
      [handler |-> "get_entities_without_maintenance",
       heading |-> <<"H","e","r","e"," ","a","r","e"," ","t","h","e"," ","e","n","t","i","t","i","e","s"," ","t","h","a","t"," ","h","a","v","e"," ","n","e","v","e","r"," ","h","a","d"," ","m","a","i","n","t","e","n","a","n","c","e"," ","p","e","r","f","o","r","m","e","d",":">>,
       has_none |-> TRUE, none |-> <<<<"A","l","l"," ","e","n","t","i","t","i","e","s"," ","(","s","e","r","v","e","r","s"," ","a","n","d"," ","n","e","t","w","o","r","k"," ","d","e","v","i","c","e","s",")"," ","h","a","v","e"," ","h","a","d"," ","m","a","i","n","t","e","n","a","n","c","e"," ","p","e","r","f","o","r","m","e","d",".">>, << >>>>,
       sorry |-> <<"S","o","r","r","y",","," ","I"," ","c","o","u","l","d","n","'","t"," ","r","e","t","r","i","e","v","e"," ","t","h","e"," ","e","n","t","i","t","y"," ","i","n","f","o","r","m","a","t","i","o","n",":"," ">>,
       title |-> FALSE] ]

\* the body the formatters share, for the formatter f, the result of its
\* method and its argument: reading a column of a row that holds only
\* 'error' raises KeyError
format_result(f, result, arg) ==
  IF result.raised # "" THEN FormatResult(result.raised, << >>)
  ELSE IF ~result.success
  THEN FormatResult("", f.sorry \o result.error)
  ELSE IF ~f.has_none
  THEN FormatResult("", f.heading)
  ELSE IF result.rows = << >>
  THEN FormatResult("", f.none[1] \o arg \o f.none[2])
  ELSE IF \E i \in 1..Len(result.rows) : result.rows[i] = "error"
  THEN FormatResult("KeyError", << >>)
  ELSE FormatResult("", f.heading \o arg)

\* the formatter called name with the argument arg
format(name, arg, results) ==
  format_result(formatters[name],
                call_handler(formatters[name].handler, results),
                IF formatters[name].title THEN Title(arg) ELSE arg)

\* the index after the longest run of characters of cs that starts at i
RECURSIVE RunEnd(_, _, _)
RunEnd(s, i, cs) ==
  IF i <= Len(s) /\ s[i] \in cs THEN RunEnd(s, i + 1, cs) ELSE i

\* 'by\s+([A-Z][a-z]+\s+[A-Z][a-z]+)' with re.IGNORECASE matches at i, the
\* first name starting at a and the second name at b
NameAt(s, i, a, b) ==
  /\ OccursAt(s, <<"b","y">>, i)
  /\ a > i + 2
  /\ RunEnd(s, a, Letters) >= a + 2
  /\ b > RunEnd(s, a, Letters)
  /\ RunEnd(s, b, Letters) >= b + 2

\* the match of the pattern at i, << >> when there is none
NameFrom(s, i) ==
  IF i + 2 <= Len(s)
       /\ NameAt(s, i, RunEnd(s, i + 2, Whitespace),
                 RunEnd(s, RunEnd(s, RunEnd(s, i + 2, Whitespace), Letters),
                        Whitespace))
  THEN SubSeq(s, RunEnd(s, i + 2, Whitespace),
              RunEnd(s, RunEnd(s, RunEnd(s, RunEnd(s, i + 2, Whitespace),
                                         Letters), Whitespace), Letters) - 1)
  ELSE << >>

\* QuestionProcessor._extract_technician: the two names after the first
\* 'by' that is followed by two names, None when there is none
_extract_technician(q) ==
  IF \E i \in 1..Len(q) : NameFrom(q, i) # << >>
  THEN NameFrom(q,
                CHOOSE i \in 1..Len(q) :
                  /\ NameFrom(q, i) # << >>
                  /\ \A j \in 1..(i - 1) : NameFrom(q, j) = << >>)
  ELSE PyNone

\* lines 106-113: the technician whose maintenance is asked for
technician_of(q) ==
  IF Contains(q, <<"j","o","h","n">>) \/ Contains(q, <<"d","o","e">>)
  THEN <<"J","o","h","n"," ","D","o","e">>
  ELSE IF Contains(q, <<"j","a","n","e">>) \/ Contains(q, <<"s","m","i","t","h">>)
  THEN <<"J","a","n","e"," ","S","m","i","t","h">>
  ELSE IF _extract_technician(q) # PyNone
  THEN _extract_technician(q)
  ELSE <<"J","o","h","n"," ","D","o","e">>

\* the tests of process_question in their order: the pattern searched, the
\* formatter called on a match and its argument ("technician": the one of
\* lines 106-113)
dispatch ==
  << [pattern |-> "city_data_center_pattern",
      formatter |-> "_format_cities_with_data_centers",
      arg |-> << >>],
     [pattern |-> "country_data_center_pattern",
      formatter |-> "_format_data_centers_by_country",
      arg |-> << >>],
     [pattern |-> "list_data_centers_pattern",
      formatter |-> "_format_data_centers_with_locations",
      arg |-> << >>],
     [pattern |-> "racks_per_data_center_pattern",
      formatter |-> "_format_racks_by_data_center",
      arg |-> << >>],
     [pattern |-> "servers_with_racks_pattern",
      formatter |-> "_format_servers_with_racks_and_data_centers",
      arg |-> << >>],
     [pattern |-> "servers_with_os_pattern",
      formatter |-> "_format_servers_with_os",
      arg |-> <<"u","b","u","n","t","u">>],
     [pattern |-> "empty_racks_pattern",
      formatter |-> "_format_empty_racks",
      arg |-> << >>],
     [pattern |-> "list_network_devices_pattern",
      formatter |-> "_format_network_devices_with_data_centers",
      arg |-> << >>],
     [pattern |-> "network_devices_count_pattern",
      formatter |-> "_format_network_devices_by_data_center",
      arg |-> << >>],
     [pattern |-> "network_devices_location_pattern",
      formatter |-> "_format_network_devices_by_location",
      arg |-> <<"L","o","n","d","o","n">>],
     [pattern |-> "maintenance_by_technician_pattern",
      formatter |-> "_format_maintenance_by_technician",
      arg |-> "technician"],
     [pattern |-> "maintenance_count_pattern",
      formatter |-> "_format_maintenance_count_by_entity_type",
      arg |-> << >>],
     [pattern |-> "server_maintenance_year_pattern",
      formatter |-> "_format_server_maintenance_by_year",
      arg |-> Str(2023)],
     [pattern |-> "maintenance_with_entity_pattern",
      formatter |-> "_format_maintenance_logs_with_entity_names",
      arg |-> << >>],
     [pattern |-> "servers_by_country_pattern",
      formatter |-> "_format_server_count_by_country",
      arg |-> << >>],
     [pattern |-> "data_centers_both_pattern",
      formatter |-> "_format_data_centers_with_both",
      arg |-> << >>],
     [pattern |-> "recent_maintenance_pattern",
      formatter |-> "_format_most_recent_server_maintenance",
      arg |-> << >>],
     [pattern |-> "no_maintenance_pattern",
      formatter |-> "_format_entities_without_maintenance",
      arg |-> << >>] >>

\* what process_question did: the formatter it called ("default" when no
\* pattern matched) and what the formatter returned or raised
Processed(formatter, r) ==
  [formatter |-> formatter, exc |-> r.exc, text |-> r.text]

DefaultResponse ==
  <<"I","'","m"," ","n","o","t"," ","s","u","r","e"," ","h","o","w"," ","t","o"," ","a","n","s","w","e","r"," ","t","h","a","t"," ","q","u","e","s","t","i","o","n","."," ","C","o","u","l","d"," ","y","o","u"," ","p","l","e","a","s","e">> \o
  <<" ","r","e","p","h","r","a","s","e"," ","i","t"," ","o","r"," ","a","s","k"," ","s","o","m","e","t","h","i","n","g"," ","a","b","o","u","t"," ","o","u","r"," ","d","a","t","a"," ","c","e","n","t","e","r","s",","," ","s","e","r","v","e","r","s",",">> \o
  <<" ","r","a","c","k","s",","," ","n","e","t","w","o","r","k"," ","d","e","v","i","c","e","s",","," ","o","r"," ","m","a","i","n","t","e","n","a","n","c","e"," ","l","o","g","s","?">>

\* the first test of process_question that q passes, 0 when it passes none
first_match(q) ==
  IF \E i \in 1..Len(dispatch) : search(patterns[dispatch[i].pattern], q)
  THEN CHOOSE i \in 1..Len(dispatch) :
         /\ search(patterns[dispatch[i].pattern], q)
         /\ \A j \in 1..(i - 1) : ~search(patterns[dispatch[j].pattern], q)
  ELSE 0

\* the call of the formatter of the test d
dispatched(d, q, results) ==
  Processed(d.formatter,
            format(d.formatter,
                   IF d.arg = "technician" THEN technician_of(q) ELSE d.arg,
                   results))

\* lines 60-145 of process_question, for the lower-cased and stripped
\* question, the first test m it passes and the results of
\* QueryHandler.execute_query
route(q, m, results) ==
  IF m = 0 THEN Processed("default", FormatResult("", DefaultResponse))
  ELSE dispatched(dispatch[m], q, results)

\* QuestionProcessor.process_question
process_question(q, results) ==
  route(Strip(Lower(q)), first_match(Strip(Lower(q))), results)

\* the question quoted in the docstring of each method of QueryHandler
DocQuestion ==
  [ get_cities_with_data_centers |->
      <<"W","h","i","c","h"," ","c","i","t","i","e","s"," ","h","a","v","e"," ","d","a","t","a"," ","c","e","n","t","e","r","s","?">>,
    get_data_centers_by_country |->
      <<"H","o","w"," ","m","a","n","y"," ","d","a","t","a"," ","c","e","n","t","e","r","s"," ","a","r","e"," ","i","n"," ","e","a","c","h"," ","c","o","u","n","t","r","y","?">>,
    list_data_centers_with_locations |->
      <<"L","i","s","t"," ","a","l","l"," ","d","a","t","a"," ","c","e","n","t","e","r","s"," ","a","l","o","n","g"," ","w","i","t","h"," ","t","h","e","i","r"," ","c","o","r","r","e","s","p","o","n","d","i","n","g"," ","c","i","t","y"," ","a","n","d"," ","c","o","u","n","t","r","y",".">>,
    get_racks_by_data_center |->
      <<"H","o","w"," ","m","a","n","y"," ","r","a","c","k","s"," ","a","r","e"," ","i","n"," ","e","a","c","h"," ","d","a","t","a"," ","c","e","n","t","e","r","?">>,
    list_servers_with_racks_and_data_centers |->
      <<"L","i","s","t"," ","a","l","l"," ","s","e","r","v","e","r","s"," ","a","l","o","n","g"," ","w","i","t","h"," ","t","h","e","i","r"," ","r","a","c","k"," ","l","a","b","e","l"," ","a","n","d"," ","d","a","t","a"," ","c","e","n","t","e","r"," ","n","a","m","e",".">>,
    get_servers_with_os |->
      <<"W","h","i","c","h"," ","s","e","r","v","e","r","s"," ","a","r","e"," ","r","u","n","n","i","n","g"," ","a"," ","s","p","e","c","i","f","i","c"," ","O","S","?">>,
    get_empty_racks |->
      <<"W","h","i","c","h"," ","r","a","c","k","s"," ","d","o"," ","n","o","t"," ","h","a","v","e"," ","a","n","y"," ","s","e","r","v","e","r","s","?">>,
    list_network_devices_with_data_centers |->
      <<"L","i","s","t"," ","a","l","l"," ","n","e","t","w","o","r","k"," ","d","e","v","i","c","e","s"," ","a","l","o","n","g"," ","w","i","t","h"," ","t","h","e","i","r"," ","t","y","p","e"," ","a","n","d"," ","t","h","e"," ","d","a","t","a"," ","c","e","n","t","e","r"," ","t","h","e","y"," ","a","r","e"," ","l","o","c","a","t","e","d"," ","i","n",".">>,
    get_network_devices_by_data_center |->
      <<"H","o","w"," ","m","a","n","y"," ","n","e","t","w","o","r","k"," ","d","e","v","i","c","e","s"," ","a","r","e"," ","i","n"," ","e","a","c","h"," ","d","a","t","a"," ","c","e","n","t","e","r","?">>,
    find_network_devices_by_location |->
      <<"F","i","n","d"," ","a","l","l"," ","I","P"," ","a","d","d","r","e","s","s","e","s"," ","o","f"," ","n","e","t","w","o","r","k"," ","d","e","v","i","c","e","s"," ","i","n"," ","a"," ","s","p","e","c","i","f","i","c"," ","l","o","c","a","t","i","o","n",".">>,
    get_maintenance_by_technician |->
      <<"W","h","i","c","h"," ","e","n","t","i","t","i","e","s"," ","h","a","d"," ","m","a","i","n","t","e","n","a","n","c","e"," ","p","e","r","f","o","r","m","e","d"," ","b","y"," ","a"," ","s","p","e","c","i","f","i","c"," ","t","e","c","h","n","i","c","i","a","n","?">>,
    get_maintenance_count_by_entity_type |->
      <<"H","o","w"," ","m","a","n","y"," ","m","a","i","n","t","e","n","a","n","c","e"," ","t","a","s","k","s"," ","w","e","r","e"," ","p","e","r","f","o","r","m","e","d"," ","o","n"," ","s","e","r","v","e","r","s"," ","v","s","."," ","n","e","t","w","o","r","k"," ","d","e","v","i","c","e","s","?">>,
    get_server_maintenance_by_year |->
      <<"W","h","i","c","h"," ","s","e","r","v","e","r","s"," ","h","a","d"," ","m","a","i","n","t","e","n","a","n","c","e"," ","i","n"," ","a"," ","s","p","e","c","i","f","i","c"," ","y","e","a","r","?">>,
    list_maintenance_logs_with_entity_names |->
      <<"L","i","s","t"," ","a","l","l"," ","m","a","i","n","t","e","n","a","n","c","e"," ","l","o","g","s"," ","w","i","t","h"," ","t","h","e"," ","c","o","r","r","e","s","p","o","n","d","i","n","g"," ","s","e","r","v","e","r"," ","o","r"," ","d","e","v","i","c","e"," ","n","a","m","e",".">>,
    get_server_count_by_country |->
      <<"F","i","n","d"," ","t","h","e"," ","t","o","t","a","l"," ","n","u","m","b","e","r"," ","o","f"," ","s","e","r","v","e","r","s"," ","i","n"," ","e","a","c","h"," ","c","o","u","n","t","r","y",".">>,
    get_data_centers_with_both_servers_and_network_devices |->
      <<"W","h","i","c","h"," ","d","a","t","a"," ","c","e","n","t","e","r","s"," ","h","a","v","e"," ","b","o","t","h"," ","s","e","r","v","e","r","s"," ","a","n","d"," ","n","e","t","w","o","r","k"," ","d","e","v","i","c","e","s","?">>,
    get_most_recent_server_maintenance |->
      <<"W","h","i","c","h"," ","s","e","r","v","e","r"," ","h","a","d"," ","t","h","e"," ","m","o","s","t"," ","r","e","c","e","n","t"," ","m","a","i","n","t","e","n","a","n","c","e"," ","p","e","r","f","o","r","m","e","d","?">>,
    get_entities_without_maintenance |->
      <<"S","h","o","w"," ","a","l","l"," ","e","n","t","i","t","i","e","s"," ","(","s","e","r","v","e","r","s"," ","o","r"," ","n","e","t","w","o","r","k"," ","d","e","v","i","c","e","s",")"," ","t","h","a","t"," ","h","a","v","e"," ","n","e","v","e","r"," ","h","a","d"," ","m","a","i","n","t","e","n","a","n","c","e",".">> ]

\* the questions asked: those of the docstrings, and questions that name a
\* technician, an operating system, a place or a year
ProcessorQuestions ==
  {DocQuestion[h] : h \in DOMAIN DocQuestion}
    \cup { <<"W","h","a","t"," ","m","a","i","n","t","e","n","a","n","c","e"," ","w","a","s"," ","p","e","r","f","o","r","m","e","d"," ","b","y"," ","A","l","i","c","e"," ","C","o","o","p","e","r"," ","l","a","s","t"," ","y","e","a","r","?">>,
           <<"w","h","a","t"," ","d","i","d"," ","j","a","n","e"," ","s","m","i","t","h"," ","r","e","p","a","i","r">>,
           <<"W","h","i","c","h"," ","s","e","r","v","e","r","s"," ","a","r","e"," ","r","u","n","n","i","n","g"," ","U","b","u","n","t","u","?">>,
           <<"F","i","n","d"," ","a","l","l"," ","I","P"," ","a","d","d","r","e","s","s","e","s"," ","o","f"," ","n","e","t","w","o","r","k"," ","d","e","v","i","c","e","s"," ","i","n"," ","L","o","n","d","o","n">>,
           <<"W","h","i","c","h"," ","s","e","r","v","e","r","s"," ","h","a","d"," ","m","a","i","n","t","e","n","a","n","c","e"," ","i","n"," ","2","0","2","3","?">>,
           <<"W","h","o"," ","i","s"," ","n","e","a","r","b","y"," "," ","t","h","e"," ","r","a","c","k","s","\n"," ","o","f"," ","o","u","r"," ","d","a","t","a"," ","c","e","n","t","e","r">>,
           <<"h","e","l","l","o"," ","t","h","e","r","e">> }

\* a QuestionProcessor before a question, the store holding dbRows rows
\* that the query of the question matches
InitProcessor ==
  /\ dbRows \in 0..MaxRows
  /\ question = << >>
  /\ front = "processor"
  /\ reply = NoReply
  /\ trace = << >>
  /\ convHistory = << >>
  /\ sessHistory = << >>
  /\ pcChat = "ready"
  /\ turn = 0

\* a caller invokes process_question(q) while the store behaves as db; the
\* reply holds the formatter called and the text returned, None when the
\* call raised
ProcessQuestion ==
  /\ front = "processor"
  /\ pcChat = "ready"
  /\ \E q \in ProcessorQuestions : \E db \in DbStates :
       \E o \in {process_question(q, handler_execute_query(dbRows, db))} :
         /\ question' = q
         /\ reply' = [path |-> o.formatter, raised |-> o.exc # "", http |-> 0,
                      value |-> IF o.exc # "" THEN PyNone ELSE o.text,
                      rag |-> NoRag, docsBefore |-> << >>,
                      historyBefore |-> << >>]
         /\ trace' = IF o.formatter = "default" THEN << >>
                      ELSE <<Call("handler_execute_query", << >>, << >>,
                                  NoPrompt, db = "down", << >>)>>
  /\ pcChat' = "done"
  /\ turn' = turn + 1
  /\ UNCHANGED <<dbRows, front, convHistory, sessHistory>>
  /\ UNCHANGED <<varsSql, varsLLM, varsVec, writers>>

NextProcessor == ProcessQuestion
---------------------------------------------------------------------------
(* Questions that satisfy the condition of more than one rule             *)

\* questions that hold the phrase of the count rule or of the listing rule
\* together with the words of another rule
OverlapQuestions ==
  { <<"h","o","w"," ","m","a","n","y"," ","d","a","t","a"," ","c","e","n","t","e","r","s"," ","h","a","v","e"," ","r","a","c","k","s">>,
    <<"H","o","w"," ","m","a","n","y"," ","d","a","t","a"," ","c","e","n","t","e","r","s"," ","h","a","v","e"," ","e","m","p","t","y"," ","r","a","c","k","s","?">>,
    <<"h","o","w"," ","m","a","n","y"," ","d","a","t","a"," ","c","e","n","t","e","r","s"," ","a","r","e"," ","t","h","e","r","e"," ","p","e","r"," ","c","o","u","n","t","r","y">>,
    <<"n","u","m","b","e","r"," ","o","f"," ","d","a","t","a"," ","c","e","n","t","e","r","s"," ","w","i","t","h"," ","s","e","r","v","e","r","s"," ","a","n","d"," ","n","e","t","w","o","r","k"," ","d","e","v","i","c","e","s">>,
    <<"H","o","w"," ","m","a","n","y"," ","d","a","t","a"," ","c","e","n","t","e","r","s"," ","a","r","e"," ","i","n"," ","L","o","n","d","o","n","?">>,
    <<"h","o","w"," ","m","a","n","y"," ","d","a","t","a"," ","c","e","n","t","e","r","s",","," ","a","n","d"," ","w","h","i","c","h"," ","i","s"," ","t","h","e"," ","l","a","r","g","e","s","t">>,
    <<"l","i","s","t"," ","a","l","l"," ","d","a","t","a"," ","c","e","n","t","e","r","s"," ","i","n"," ","l","o","n","d","o","n">>,
    <<"w","h","i","c","h"," ","d","a","t","a"," ","c","e","n","t","e","r","s"," ","h","a","v","e"," ","t","h","e"," ","m","o","s","t"," ","r","a","c","k","s">>,
    <<"s","h","o","w"," ","a","l","l"," ","d","a","t","a"," ","c","e","n","t","e","r","s"," ","i","n"," ","n","e","w"," ","y","o","r","k">>,
    <<"l","a","r","g","e","s","t"," ","d","a","t","a"," ","c","e","n","t","e","r"," ","i","n"," ","n","e","w"," ","y","o","r","k">>,
    <<"w","h","i","c","h"," ","d","a","t","a"," ","c","e","n","t","e","r","s"," ","a","r","e"," ","t","h","e"," ","s","m","a","l","l","e","s","t">>,
    <<"h","o","w"," ","m","a","n","y"," ","d","a","t","a"," ","c","e","n","t","e","r","s"," ","d","o"," ","w","e"," ","h","a","v","e">> }

\* the Flask application with a new or an older session
InitOverlap ==
  /\ InitChat
  /\ front = "app"

\* a browser posts one of these questions to /chat
AskOverlap ==
  /\ front = "app"
  /\ pcChat = "ready"
  /\ \E q \in OverlapQuestions : \E db \in DbStates : AppRequest(q, db)

NextOverlap == AskOverlap

---------------------------------------------------------------------------
(* Constructions of the RAG engine over the same index directory          *)

\* the largest number of constructions
MaxConstructions == 6

\* no process has used the index directory yet
InitEngine ==
  /\ vsDocs = << >>
  /\ vsDisk = DiskAbsent
  /\ vsOut = NoVecOut

\* a process starts: EmbeddingManager.__init__ loads or creates the store
\* and RAGEngine.__init__ adds the schema chunks, logging a failure; n
\* counts the constructions
ConstructEngine ==
  /\ vsOut.n < MaxConstructions
  /\ \E load \in {"ok", "fail"} : \E create \in SaveOutcomes :
     \E embed \in {"ok", "fail"} : \E save \in SaveOutcomes :
     \E s \in {_load_or_create_vector_store(vsDisk, load, create)} :
     \E a \in {add_schema_info_to_vector_store(s.docs, s.disk, embed, save)} :
       /\ vsDocs' = a.docs
       /\ vsDisk' = a.disk
       /\ vsOut' = [op |-> "construct", raised |-> a.raised,
                    texts |-> SchemaChunks, before |-> s.docs,
                    n |-> vsOut.n + 1]
  /\ UNCHANGED varsNotVec

NextEngine == ConstructEngine

---------------------------------------------------------------------------
(* The greeting and farewell vocabulary sent as messages                  *)

\* str.upper()
Upper(s) == [i \in 1..Len(s) |-> UpperChar(s[i])]

\* an entry in lower case, in upper case and capitalized, alone and between
\* whitespace
Spellings(entry) ==
  { entry, Upper(entry), Title(entry),
    <<" "," ">> \o entry \o <<" ">>, <<"\t">> \o Title(entry) \o <<"\n">> }

GreetingMessages ==
  UNION {Spellings(greetings[i]) : i \in 1..Len(greetings)}

FarewellMessages ==
  UNION {Spellings(farewells[i]) : i \in 1..Len(farewells)}

\* the Flask application with a new or an older session
InitVocabulary ==
  /\ InitChat
  /\ front = "app"

\* a browser posts an entry of one of the vocabularies to /chat
SayEntry ==
  /\ front = "app"
  /\ pcChat = "ready"
  /\ \E q \in GreetingMessages \cup FarewellMessages :
       \E db \in DbStates : AppRequest(q, db)

NextVocabulary == SayEntry

---------------------------------------------------------------------------
(* Specifications                                                          *)

\* is_sql_query applied to one text
InitSpecSql == InitSql /\ IdleLLM /\ IdleVec /\ IdleChat /\ IdleWriters
SpecSql == InitSpecSql /\ [][NextSql]_vars

\* one call of generate or generate_with_retries against a scripted backend
InitSpecLLM == InitLLM /\ IdleSql /\ IdleVec /\ IdleChat /\ IdleWriters
SpecLLM == InitSpecLLM /\ [][NextLLM]_vars

\* one call of generate_structured_output on one completion
InitSpecStruct == InitStruct /\ IdleSql /\ IdleVec /\ IdleChat /\ IdleWriters
SpecStruct == InitSpecStruct /\ [][NextStruct]_vars

\* the vector store under adds, searches and process restarts
InitSpecVec == InitVec /\ IdleSql /\ IdleLLM /\ IdleChat /\ IdleWriters
SpecVec == InitSpecVec /\ [][NextVec]_vars

\* two callers of add_texts_to_vector_store at the same time
InitSpecWriters == InitWriters /\ IdleSql /\ IdleLLM /\ IdleChat
SpecWriters == InitSpecWriters /\ [][NextWriters]_vars

\* one call of generate_sql_query on one completion
InitSpecSynth == InitSynth /\ IdleSql /\ IdleVec /\ IdleChat /\ IdleWriters
SpecSynth == InitSpecSynth /\ [][NextSynth]_vars

\* the example questions of the help response sent to the Flask application
InitSpecHelp == InitHelp /\ IdleSql /\ IdleLLM /\ IdleWriters
SpecHelp == InitSpecHelp /\ [][NextHelp]_vars

\* questions within the reach of several rules sent to the Flask application
InitSpecOverlap == InitOverlap /\ IdleSql /\ IdleLLM /\ IdleWriters
SpecOverlap == InitSpecOverlap /\ [][NextOverlap]_vars

\* questions sent to a QuestionProcessor
InitSpecProcessor == InitProcessor /\ IdleSql /\ IdleLLM /\ IdleVec /\ IdleWriters
SpecProcessor == InitSpecProcessor /\ [][NextProcessor]_vars

\* processes that construct the RAG engine one after the other
InitSpecEngine == InitEngine /\ IdleSql /\ IdleLLM /\ IdleChat /\ IdleWriters
SpecEngine == InitSpecEngine /\ [][NextEngine]_vars

\* greetings and farewells sent to the Flask application
InitSpecVocabulary == InitVocabulary /\ IdleSql /\ IdleLLM /\ IdleWriters
SpecVocabulary == InitSpecVocabulary /\ [][NextVocabulary]_vars

\* dialogues with one front end: a new Conversation or a new session
InitSpecDialogue == InitDialogue /\ IdleSql /\ IdleLLM /\ IdleWriters
SpecDialogue == InitSpecDialogue /\ [][NextDialogue]_vars

\* requests to the two front ends: Conversation and the Flask application
Init == InitChat /\ IdleSql /\ IdleLLM /\ IdleWriters
Next == NextChat
Spec == Init /\ [][Next]_vars

---------------------------------------------------------------------------
(* C1                                                                      *)

KeywordsIn(t) == {i \in 1..Len(sql_keywords) : Contains(t, sql_keywords[i])}

\* C1: is_sql_query(text) is true exactly when the lower-cased text begins,
\* after optional whitespace, with "select" and contains "from", or contains
\* at least two of the seven keywords; so a text containing "select" and
\* "from" is detected and a text containing exactly one keyword is not.
C1_Detection ==
  pcSql = "done" =>
    LET t == Lower(sqlText) IN
    /\ sqlResult <=> \/ (ReLeadingSelect(t) /\ Contains(t, <<"f","r","o","m">>))
                     \/ Cardinality(KeywordsIn(t)) >= 2
    /\ (Contains(t, <<"s","e","l","e","c","t">>) /\ Contains(t, <<"f","r","o","m">>)) => sqlResult
    /\ Cardinality(KeywordsIn(t)) = 1 => ~sqlResult

\* a text in mixed case that does not begin with "select" is detected by its
\* two keywords
C1_Witness ==
  /\ pcSql = "done"
  /\ sqlResult
  /\ ~ReLeadingSelect(Lower(sqlText))
  /\ sqlText # Lower(sqlText)

---------------------------------------------------------------------------
(* C4                                                                      *)

\* index of the first successful POST among the first n, 0 when there is none
FirstOk(script, n) ==
  IF \E i \in 1..n : script[i].kind \notin FailureKinds
  THEN CHOOSE i \in 1..n :
         /\ script[i].kind \notin FailureKinds
         /\ \A j \in 1..(i - 1) : script[j].kind \in FailureKinds
  ELSE 0

\* C4: generate_with_retries calls generate at most max_retries times,
\* returns the result of the first attempt that succeeds, sleeps between
\* consecutive failed attempts with each delay double the previous one, and
\* returns the fixed apology after max_retries failed attempts.
C4_RetriesUntilSuccess ==
  (llmOp = "generate_with_retries" /\ maxRetries > 0) =>
    LET k == FirstOk(backend, maxRetries)
        n == IF k > 0 THEN k ELSE maxRetries IN
    /\ ~llmOut.raised
    /\ llmOut.calls = n
    /\ llmOut.sleeps = [i \in 1..(n - 1) |-> 2 ^ (i - 1)]
    /\ llmOut.value = IF k > 0 THEN Strip(backend[k].body)
                                ELSE Apology(maxRetries)

---------------------------------------------------------------------------
(* C5                                                                      *)

\* C5: generate never raises to its caller; on a non-200 status, a transport
\* error, a malformed body or any other exception it returns a string that
\* describes the error.
C5_GenerateNeverRaises ==
  llmOp = "generate" =>
    /\ ~llmOut.raised
    /\ llmOut.value # PyNone
    /\ backend[1].kind \in FailureKinds => StartsWith(llmOut.value, <<"E","r","r","o","r",":"," ">>)

\* the body of a 200 response was not a JSON object, and generate returned
\* the error text
C5_Witness ==
  /\ llmOp = "generate"
  /\ backend[1].kind = "nonobject"
  /\ StartsWith(llmOut.value, <<"E","r","r","o","r",":"," ">>)

---------------------------------------------------------------------------
(* C6                                                                      *)

\* the string generate hands to generate_structured_output
ResponseOf(http) == generate(http).value

\* the texts of the four extraction stages: the body of a json fence, the
\* body of any fence, the widest {...} substring, the whole response
StageTexts(response) ==
  {response}
    \cup (IF Contains(response, <<"backtick","backtick","backtick","j","s","o","n">>)
          THEN {Strip(BeforeFirst(SplitSecond(response, <<"backtick","backtick","backtick","j","s","o","n">>), <<"backtick","backtick","backtick">>))}
          ELSE {})
    \cup (IF Contains(response, <<"backtick","backtick","backtick">>)
          THEN {Strip(SplitSecond(response, <<"backtick","backtick","backtick">>))}
          ELSE {})
    \cup (IF Find(response, <<"{">>) # 0 /\ RFind(response, <<"}">>) > Find(response, <<"{">>)
          THEN {SubSeq(response, Find(response, <<"{">>), RFind(response, <<"}">>))}
          ELSE {})

\* no stage of the extraction finds a JSON document in the response
Unparsable(response) == \A t \in StageTexts(response) : ~JsonLoads(t).ok

C6_WitnessNone ==
  /\ llmOp = "generate_structured_output"
  /\ backend[1].kind = "ok"
  /\ backend[1].body = <<"backtick","backtick","backtick","j","s","o","n","\n","x">>
  /\ llmOut.value = PyNone

---------------------------------------------------------------------------
(* C7                                                                      *)

\* an add call that returned left the store with exactly its texts appended
AddAppendsAll ==
  (vsOut.op = "add" /\ ~vsOut.raised) =>
    /\ Len(vsDocs) = Len(vsOut.before) + Len(vsOut.texts)
    /\ vsDocs = vsOut.before \o vsOut.texts

\* C7 as stated: every add call that returns raises the document count by
\* exactly len(texts), and over any sequence of operations, process restart
\* and reload included, the document count never decreases.
C7_CountNeverDecreases ==
  /\ []AddAppendsAll
  /\ [][Len(vsDocs') >= Len(vsDocs)]_vars

\* C7 amended: every add call that returns raises the document count by
\* exactly len(texts), and the count never decreases while the process runs;
\* a restart sets it to the count of the persisted index when that index
\* loads, and to the single placeholder document otherwise.
C7_CountWithinProcess ==
  /\ []AddAppendsAll
  /\ [][/\ vsOut'.op # "restart" => Len(vsDocs') >= Len(vsDocs)
        /\ vsOut'.op = "restart" =>
              \/ vsDisk.state = "ok" /\ vsDocs' = vsDisk.docs
              \/ vsDocs' = <<Placeholder>>]_vars

\* a list with the same text twice was added to a store that already held
\* that text, and the call returned
C7_Witness ==
  /\ vsOut.op = "add"
  /\ ~vsOut.raised
  /\ Len(vsOut.texts) = 2
  /\ vsOut.texts[1] = vsOut.texts[2]
  /\ \E i \in 1..Len(vsOut.before) : vsOut.before[i] = vsOut.texts[1]
  /\ Len(vsDocs) = Len(vsOut.before) + 2


---------------------------------------------------------------------------
(* C2                                                                      *)

\* the calls of the request that reach the store or the vector store
DataCalls ==
  {i \in 1..Len(trace) :
     trace[i].call \in {"execute_query", "rule_queries", "similarity_search",
                        "add_texts"}}

\* the history of the front end that served the request
History == IF front = "conv" THEN convHistory ELSE sessHistory

\* the last entry of the history is the exchange of this request
ExchangeRecorded ==
  /\ History # << >>
  /\ History[Len(History)].user = question
  /\ IF front = "conv"
     THEN History[Len(History)].assistant = reply.value
     ELSE History[Len(History)].bot = reply.value

\* C2: when the input is 'hi' the request takes the greeting branch and
\* completes, the exchange is recorded in the history, and the request
\* calls neither the store's execute_query nor the vector store's
\* similarity_search nor any vector-store add.
C2_HiShortCircuit ==
  (pcChat = "done" /\ question = <<"h","i">>) =>
    /\ reply.path = "greeting"
    /\ ~reply.raised
    /\ reply.http \in {0, 200}
    /\ ExchangeRecorded
    /\ DataCalls = {}
    /\ vsDocs = reply.docsBefore

\* Conversation has answered 'hi' with the completion of the greeting prompt
\* and appended the exchange to a history of earlier exchanges
C2_Witness ==
  /\ pcChat = "done"
  /\ front = "conv"
  /\ question = <<"h","i">>
  /\ reply.path = "greeting"
  /\ Len(trace) = 1
  /\ trace[1].call = "generate"
  /\ Len(convHistory) = Len(reply.historyBefore) + 1
  /\ Len(convHistory) > 1

---------------------------------------------------------------------------
(* C3                                                                      *)

\* the request went down the Direct path of execute_rag_query and the store
\* answered its query
DirectAnswered ==
  /\ pcChat = "done"
  /\ front = "conv"
  /\ reply.rag.query_type \in {"direct_sql", "direct_sql_error"}
  /\ trace[1].call = "execute_query"
  /\ ~trace[1].raised

\* the vector-store add of the request, if any, did not raise
AddAccepted ==
  \A i \in 1..Len(trace) : trace[i].call = "add_texts" => ~trace[i].raised

---------------------------------------------------------------------------
(* C8                                                                      *)

HowManyDataCenters == <<"H","o","w"," ","m","a","n","y"," ","d","a","t","a"," ","c","e","n","t","e","r","s"," ","d","o"," ","w","e"," ","h","a","v","e","?">>

\* C8: the Flask application answers 'How many data centers do we have?'
\* with the count rule, and when the store answers, the text contains the
\* number n of rows of the table data_centers.
C8_CountRule ==
  (pcChat = "done" /\ front = "app" /\ question = HowManyDataCenters) =>
    /\ reply.path = "count_data_centers"
    /\ Len(trace) = 1
    /\ trace[1].call = "execute_query"
    /\ ~trace[1].raised =>
         /\ Contains(reply.value, Str(dbRows))
         /\ reply.value = <<"W","e"," ","c","u","r","r","e","n","t","l","y"," ","h","a","v","e"," ">> \o Str(dbRows)
                            \o <<" ","d","a","t","a"," ","c","e","n","t","e","r","s"," ","i","n"," ","o","u","r"," ","s","y","s","t","e","m",".">>

\* the question was asked against a table of 5 rows and the answer says 5
C8_Witness ==
  /\ pcChat = "done"
  /\ front = "app"
  /\ question = HowManyDataCenters
  /\ dbRows = 5
  /\ reply.path = "count_data_centers"
  /\ Contains(reply.value, <<"5">>)

---------------------------------------------------------------------------
(* C9                                                                      *)

\* the fixed greeting and farewell vocabulary
Vocabulary ==
  {greetings[i] : i \in 1..Len(greetings)}
    \cup {farewells[i] : i \in 1..Len(farewells)}

\* C9: a question is classified as a greeting only when, after trimming, it
\* has at most 3 whitespace-separated tokens and equals an entry of the
\* greeting/farewell vocabulary; 'list all servers' is routed to the data
\* pipeline, never to the greeting handler.
C9_GreetingOnlyVocabulary ==
  pcChat = "done" =>
    /\ reply.path \in {"greeting", "farewell"} =>
         /\ SplitCount(Strip(question)) <= 3
         /\ Lower(Strip(question)) \in Vocabulary
    /\ question = <<"l","i","s","t"," ","a","l","l"," ","s","e","r","v","e","r","s">> =>
         /\ reply.path \notin {"greeting", "farewell"}
         /\ DataCalls # {}

---------------------------------------------------------------------------
(* C10                                                                     *)

\* the request took the user's text as a query to run: the Direct path of
\* execute_rag_query, or the sql rule of the Flask application
TakenAsLiteral ==
  /\ pcChat = "done"
  /\ \/ front = "conv" /\ reply.rag.query_type \in {"direct_sql", "direct_sql_error"}
     \/ front = "app" /\ reply.path = "sql"

\* C10: when a question is taken as a literal query, the SQL text handed to
\* the store's execute_query is the user's question character for character,
\* and the store is called exactly once with it.
C10_LiteralVerbatim ==
  TakenAsLiteral =>
    /\ Cardinality({i \in 1..Len(trace) : trace[i].call = "execute_query"}) = 1
    /\ trace[1].call = "execute_query"
    /\ trace[1].text = question
---------------------------------------------------------------------------
(* C11                                                                     *)

\* the request was classified as Direct: Conversation passed it to the
\* RAGEngine, which took the question as a literal query that the store ran
\* and whose rows the vector store accepted
DirectDone ==
  /\ pcChat = "done"
  /\ front = "conv"
  /\ reply.rag.query_type = "direct_sql"

\* the calls of the request on the collaborator named
CallsOf(name) == {i \in 1..Len(trace) : trace[i].call = name}

\* C11: in a request classified as Direct no later pipeline step runs once
\* the store query and the vector write-back are done: the request makes no
\* similarity search and no generate call before it returns.
C11_DirectSkipsRest ==
  DirectDone =>
    /\ CallsOf("similarity_search") = {}
    /\ CallsOf("generate") = {}

---------------------------------------------------------------------------
(* C12                                                                     *)

\* Conversation passed the request to answer_conversational_query, which
\* returned
Answered ==
  /\ pcChat = "done"
  /\ front = "conv"
  /\ reply.path # "greeting"
  /\ ~reply.raised

\* the number of exchanges of the supplied history that the prompt may hold
Recent(h) == IF Len(h) < 5 THEN Len(h) ELSE 5

\* C12: the prompt built by answer_conversational_query holds only the last
\* 5 exchanges of the supplied history (all of them when there are fewer),
\* oldest first, whatever the length of the history, and the call does not
\* modify the supplied history.
C12_LastFiveExchanges ==
  Answered =>
    /\ trace[Len(trace)].call = "generate"
    /\ trace[Len(trace)].prompt.template = "CONVERSATIONAL_PROMPT"
    /\ Len(trace[Len(trace)].prompt.history) = Recent(reply.historyBefore)
    /\ \A i \in 1..Recent(reply.historyBefore) :
         trace[Len(trace)].prompt.history[i] =
           reply.historyBefore[Len(reply.historyBefore)
                                 - Recent(reply.historyBefore) + i]
    /\ convHistory = Append(reply.historyBefore,
                            [user |-> question, assistant |-> reply.value])

\* a question asked after 6 earlier exchanges: the prompt holds exchanges 2
\* to 6
C12_Witness ==
  /\ Answered
  /\ Len(reply.historyBefore) = 6
  /\ Len(trace[Len(trace)].prompt.history) = 5
  /\ trace[Len(trace)].prompt.history[1] = reply.historyBefore[2]
  /\ trace[Len(trace)].prompt.history[5] = reply.historyBefore[6]

\* a question asked after 3 earlier exchanges: the prompt holds all 3
C12_WitnessShort ==
  /\ Answered
  /\ Len(reply.historyBefore) = 3
  /\ trace[Len(trace)].prompt.history = reply.historyBefore

---------------------------------------------------------------------------
(* C13                                                                     *)

\* C13: after any sequence of successfully processed requests the stored
\* history of a conversation holds at most 20 exchanges, and these are the
\* most recent exchanges in their order of occurrence.
C13_BoundedMemory ==
  pcChat = "done" =>
    /\ Len(History) <= HistoryCap
    /\ \A i \in 1..Len(History) :
         History[i].user = TurnQuestion(turn - Len(History) + i)

\* the same for the session history of the Flask application alone
C13_SessionBounded == front = "app" => C13_BoundedMemory

\* the session of the Flask application after more than 20 requests
C13_SessionWitness ==
  /\ front = "app"
  /\ pcChat = "done"
  /\ turn = HistoryCap + 2
  /\ Len(sessHistory) = HistoryCap
  /\ sessHistory[1].user = TurnQuestion(3)

---------------------------------------------------------------------------
(* C14                                                                     *)

\* the request ended with an error response: an exception left
\* Conversation.process_input, or chat() answered with an HTTP error status
Failed == reply.raised \/ reply.http \notin {0, 200}

\* the exchange of the request as the front end stores it
Exchange ==
  IF front = "conv" THEN [user |-> question, assistant |-> reply.value]
  ELSE [user |-> question, bot |-> reply.value]

\* C14 as stated: every processed request, greeting or not, appends exactly
\* one exchange {user text, answer returned} as the last element of the
\* caller's history and leaves all earlier exchanges unchanged and in
\* order; a request that fails with an error response appends nothing.
C14_AppendsOneExchange ==
  pcChat = "done" =>
    IF Failed THEN History = reply.historyBefore
    ELSE History = Append(reply.historyBefore, Exchange)

\* the last n elements of s
LastN(s, n) == IF Len(s) <= n THEN s ELSE SubSeq(s, Len(s) - n + 1, Len(s))

\* C14 amended: every processed request appends exactly one exchange as the
\* last element of the caller's history and leaves the earlier exchanges
\* unchanged and in order, except that the session history of the Flask
\* application keeps only its last 20 entries, so a request on a full
\* session history drops the oldest exchange; a request that fails with an
\* error response appends nothing.
C14_AppendsOneExchangeCapped ==
  pcChat = "done" =>
    IF Failed THEN History = reply.historyBefore
    ELSE IF front = "conv"
    THEN History = Append(reply.historyBefore, Exchange)
    ELSE History = LastN(Append(reply.historyBefore, Exchange), HistoryCap)

\* a request on a session history of 20 exchanges: the new exchange is last
\* and the oldest one is gone
C14_Witness ==
  /\ pcChat = "done"
  /\ front = "app"
  /\ ~Failed
  /\ Len(reply.historyBefore) = HistoryCap
  /\ Len(sessHistory) = HistoryCap
  /\ sessHistory[HistoryCap] = Exchange
  /\ sessHistory[1] = reply.historyBefore[2]

\* a request that failed and left the history as it was
C14_WitnessFailed ==
  /\ pcChat = "done"
  /\ Failed
  /\ reply.historyBefore # << >>
  /\ History = reply.historyBefore

---------------------------------------------------------------------------
(* C15                                                                     *)

\* C15: answering never raises to the caller: for any question and any
\* failure of the store, of the vector store or of the generative backend,
\* Conversation.process_input (with answer_conversational_query) and
\* DataCenterChatbot.process_input return a text answer.
C15_NeverRaises ==
  (pcChat = "done" /\ reply.http # 400) =>
    /\ ~reply.raised
    /\ reply.value # PyNone

---------------------------------------------------------------------------
(* C16                                                                     *)

\* the texts that the backend completes the final prompt with when it works
FinalCompletions ==
  {Strip(o.body) : o \in {a \in AnswerOutcomes : a.kind = "ok"}}

\* the fixed apologies of generate_with_retries
Apologies == {Apology(n) : n \in 0..MaxRetries}

\* C16: when the generative backend fails on the final answer-generation
\* call of a request, the text the user receives is the fixed apology,
\* produced after all retry attempts have failed; a single failed attempt
\* never ends the request with the backend's raw error string as the answer.
C16_ApologyAfterRetries ==
  Answered =>
    /\ reply.value \in FinalCompletions \cup Apologies
    /\ ~StartsWith(reply.value, <<"E","r","r","o","r">>)

---------------------------------------------------------------------------
(* C17                                                                     *)

\* caller w is inside its append-and-save section: it has appended its
\* texts and has not yet saved the index
InSection(w) == writers.of[w].pc = "appended"

\* both callers have returned
BothDone == \A w \in Writers : writers.of[w].pc = "done"

\* the persisted index holds the texts of both calls next to the documents
\* it held before
BothPersisted ==
  /\ vsDisk.state = "ok"
  /\ \A w \in Writers :
       \E i \in 1..(Len(vsDisk.docs) - Len(writers.of[w].texts) + 1) :
         SubSeq(vsDisk.docs, i, i + Len(writers.of[w].texts) - 1)
           = writers.of[w].texts
  /\ \E base \in WriterBases :
       Len(vsDisk.docs) = Len(base) + Len(writers.of["w1"].texts)
                            + Len(writers.of["w2"].texts)

\* C17: two concurrent add_texts_to_vector_store calls never overlap their
\* append-and-save sections, and after both have finished the persisted
\* index holds the documents of both calls.
C17_WritersSerialized ==
  /\ ~(InSection("w1") /\ InSection("w2"))
  /\ BothDone => BothPersisted

---------------------------------------------------------------------------
(* C18                                                                     *)

\* C18: every example question that the help response advertises is, when
\* sent as the message, answered by a data-bearing rule and not by the
\* generic fallback text or the default reply.
C18_HelpExamplesAnswered ==
  (pcChat = "done" /\ front = "app" /\ question \in HelpExamples) =>
    /\ reply.path \notin CannedRules
    /\ reply.path # "greeting"
    /\ trace # << >>

\* the examples that a data-bearing rule answers
AnsweredExamples ==
  HelpExamples \ { <<"T","e","l","l"," ","m","e"," ","a","b","o","u","t"," ","t","h","e"," ","S","e","a","t","t","l","e"," ","d","a","t","a"," ","c","e","n","t","e","r">>,
                   <<"W","h","a","t"," ","s","e","r","v","e","r"," ","m","o","d","e","l","s"," ","d","o"," ","w","e"," ","u","s","e","?">>,
                   <<"W","h","a","t"," ","i","s"," ","o","u","r"," ","t","o","t","a","l"," ","s","e","r","v","e","r"," ","c","a","p","a","c","i","t","y","?">> }

\* the same for the examples other than the three that no rule knows
C18_OtherExamplesAnswered ==
  question \in AnsweredExamples => C18_HelpExamplesAnswered

---------------------------------------------------------------------------
(* C19                                                                     *)

\* execute_rag_query was given a question that is not a literal query
Retrieval == Answered /\ ~is_sql_query(question)

\* ... and that holds a database-related term
DbQuestion == Retrieval /\ is_db_question(question)

\* the context items of the top_k best documents of the store the request
\* started with, none when the search raised
Retrieved ==
  IF trace[1].raised THEN << >>
  ELSE RetrievedContext(similarity_search(reply.docsBefore, top_k, "ok"))

\* the context of the result is the retrieved items followed by one entry
OneEntryAfterRetrieved ==
  /\ Len(reply.rag.context) = Len(Retrieved) + 1
  /\ SubSeq(reply.rag.context, 1, Len(Retrieved)) = Retrieved

\* the entry after the retrieved items
SqlEntry == reply.rag.context[Len(reply.rag.context)]

\* the store ran the synthesized query and the vector store accepted the
\* rows
SynthesisSucceeded ==
  /\ \A i \in CallsOf("execute_query") : ~trace[i].raised
  /\ AddAccepted

\* the final generation step of execute_rag_query ran after every call on
\* the store and the vector store, over the context of the result
FinalGenerationRan ==
  \E i \in CallsOf("generate") :
    /\ trace[i].prompt.template = "RAG_PROMPT"
    /\ trace[i].prompt.context = reply.rag.context
    /\ \A j \in DataCalls : j < i

\* C19: for a non-literal, database-related question execute_rag_query
\* performs exactly one similarity search (with k = top_k), then attempts
\* query synthesis and execution, and appends exactly one entry after the
\* retrieved items: 'generated_sql_results', with the results also written
\* to the vector store, when synthesis, execution and write-back succeed,
\* otherwise 'sql_error'; the final generation step still runs afterwards
\* and the result has query_type 'rag'.
C19_RagWithSynthesis ==
  DbQuestion =>
    /\ reply.rag.query_type = "rag"
    /\ CallsOf("similarity_search") = {1}
    /\ OneEntryAfterRetrieved
    /\ Cardinality(CallsOf("execute_query")) = 1
    /\ \A i \in CallsOf("execute_query") :
         /\ i > 1
         /\ trace[i].text = reply.rag.sql_query
         /\ SynthesisSucceeded =>
              /\ SqlEntry.source = "generated_sql_results"
              /\ SqlEntry.rows = trace[i].rows
              /\ reply.rag.sql_results = trace[i].rows
              /\ vsDocs = reply.docsBefore
                            \o SqlResultTexts(reply.rag.sql_query, trace[i].rows)
         /\ ~SynthesisSucceeded => SqlEntry.source = "sql_error"
    /\ FinalGenerationRan

\* a question whose synthesized query returned rows that were written to
\* the vector store
C19_Witness ==
  /\ DbQuestion
  /\ SynthesisSucceeded
  /\ SqlEntry.source = "generated_sql_results"
  /\ Len(reply.rag.sql_results) > 1
  /\ Len(vsDocs) = Len(reply.docsBefore) + Len(reply.rag.sql_results)
  /\ Len(Retrieved) = top_k

\* a question whose synthesized query the store rejected
C19_WitnessError ==
  /\ DbQuestion
  /\ ~SynthesisSucceeded
  /\ SqlEntry.source = "sql_error"
  /\ FinalGenerationRan

---------------------------------------------------------------------------
(* C20                                                                     *)

\* the similarity search of the request raised
SearchFailed ==
  /\ Retrieval
  /\ trace[1].call = "similarity_search"
  /\ trace[1].raised

\* C20: a failure of the vector similarity search is not fatal:
\* execute_rag_query continues with an empty list of retrieved context,
\* still runs query synthesis (when the question is database-related) and
\* the final generation step, and returns a 'rag' result.
C20_SearchFailureNotFatal ==
  SearchFailed =>
    /\ reply.rag.query_type = "rag"
    /\ \A i \in 1..Len(reply.rag.context) :
         reply.rag.context[i].source \in {"generated_sql_results", "sql_error"}
    /\ Len(reply.rag.context) = (IF is_db_question(question) THEN 1 ELSE 0)
    /\ Cardinality(CallsOf("execute_query"))
         = (IF is_db_question(question) THEN 1 ELSE 0)
    /\ FinalGenerationRan
    /\ ExchangeRecorded

\* the search failed for a database-related question; its query was still
\* synthesized and run, and the answer was generated
C20_Witness ==
  /\ SearchFailed
  /\ is_db_question(question)
  /\ reply.rag.query_type = "rag"
  /\ Len(reply.rag.context) = 1
  /\ SqlEntry.source = "generated_sql_results"
  /\ FinalGenerationRan

\* the search failed for a question without a database-related term
C20_WitnessPlain ==
  /\ SearchFailed
  /\ ~is_db_question(question)
  /\ reply.rag.context = << >>
  /\ FinalGenerationRan

---------------------------------------------------------------------------
(* C21                                                                     *)

\* C21: EmbeddingManager.similarity_search(query, k) degrades on failure:
\* on any I/O or embedding failure during the search it returns an empty
\* list instead of raising, and on success it returns at most k items, best
\* match first.
C21_SearchDegrades ==
  vsOut.op = "search" =>
    /\ ~vsOut.raised
    /\ Len(vsOut.texts) <= vsOut.n
    /\ vsOut.texts = SubSeq(vsDocs, 1, Len(vsOut.texts))

\* the part of C21 about a search that succeeds
C21_AtMostK ==
  (vsOut.op = "search" /\ ~vsOut.raised) =>
    /\ Len(vsOut.texts) <= vsOut.n
    /\ vsOut.texts = SubSeq(vsDocs, 1, Len(vsOut.texts))

---------------------------------------------------------------------------
(* C22                                                                     *)

\* the store answered the query of the request with rows and the
\* vector-store add that followed raised
WriteFailed ==
  /\ pcChat = "done"
  /\ front = "conv"
  /\ Len(trace) >= 2
  /\ \E i \in CallsOf("execute_query") :
       /\ ~trace[i].raised
       /\ trace[i].rows # << >>
       /\ trace[i + 1].call = "add_texts"
       /\ trace[i + 1].raised

\* the rows that the store returned in the request
StoreRows == trace[CHOOSE i \in CallsOf("execute_query") : TRUE].rows

\* C22: a vector-store write failure does not change the outcome of a query
\* that executed successfully: the Direct path still returns the rows as a
\* 'direct_sql' result, and the synthesized-query path still puts the rows
\* into the context as 'generated_sql_results'.
C22_WriteFailureNonFatal ==
  WriteFailed =>
    IF is_sql_query(question)
    THEN /\ reply.rag.query_type = "direct_sql"
         /\ reply.rag.sql_results = StoreRows
    ELSE /\ reply.rag.query_type = "rag"
         /\ SqlEntry.source = "generated_sql_results"
         /\ SqlEntry.rows = StoreRows

\* the Direct path alone
C22_DirectKeepsRows ==
  (WriteFailed /\ is_sql_query(question)) => C22_WriteFailureNonFatal

\* the synthesized-query path alone
C22_GeneratedKeepsRows ==
  (WriteFailed /\ ~is_sql_query(question)) => C22_WriteFailureNonFatal

---------------------------------------------------------------------------
(* C23                                                                     *)

\* the completion that generate_sql_query received
Completion == generate(backend[1]).value

\* the first position of 'select' in the completion, in any letter case
FirstSelect == Find(Lower(Completion), <<"s","e","l","e","c","t">>)

\* the SQL that the stages of C23 extract from the completion
StagedSql ==
  IF Contains(Completion, <<"backtick","backtick","backtick","s","q","l">>)
  THEN Strip(BeforeFirst(AfterFirst(Completion, <<"backtick","backtick","backtick","s","q","l">>), <<"backtick","backtick","backtick">>))
  ELSE IF Contains(Completion, <<"backtick","backtick","backtick">>)
  THEN Strip(BeforeFirst(AfterFirst(Completion, <<"backtick","backtick","backtick">>), <<"backtick","backtick","backtick">>))
  ELSE IF FirstSelect # 0
  THEN Strip(SubSeq(Completion, FirstSelect, Len(Completion)))
  ELSE Completion

\* C23: when no rule of the rule-based converter matches, generate_sql_query
\* calls the backend once and extracts the SQL by the first applicable
\* stage: the trimmed body of a ```sql block; else the trimmed body of the
\* first fenced block; else the text from the first occurrence of 'select'
\* in any letter case; else the raw response.
C23_ExtractionStages ==
  llmOp = "generate_sql_query" =>
    /\ llmOut.calls = 1
    /\ llmOut.value = StagedSql

\* the same for completions in which 'select' is all upper case or all
\* lower case wherever it occurs, and in one of the two only
C23_UniformCase ==
  (llmOp = "generate_sql_query"
     /\ ~Contains(Completion, <<"S","e","l","e","c","t">>)
     /\ ~(Contains(Completion, <<"S","E","L","E","C","T">>) /\ Contains(Completion, <<"s","e","l","e","c","t">>)))
    => C23_ExtractionStages


---------------------------------------------------------------------------
(* C24                                                                     *)

\* the condition of the rule called name holds for the input
Hits(rs, name) == \E i \in 1..Len(rs) : rs[i].rule = name /\ rs[i].hit

\* the normalised question satisfies the condition of the count rule
CountHit ==
  /\ pcChat = "done"
  /\ front = "app"
  /\ Hits(app_rules(Strip(Lower(question))), "count_data_centers")

\* the rules of process_input from the top down to the entities that never
\* had maintenance: the analytic and the maintenance rules
AnalyticRules ==
  { "cities_with_data_centers", "data_centers_by_country",
    "data_centers_with_locations", "racks_per_data_center",
    "servers_with_rack_and_data_center", "ubuntu_servers", "empty_racks",
    "network_devices", "network_devices_per_data_center",
    "london_network_devices", "john_doe_maintenance",
    "maintenance_by_entity_type", "server_maintenance_2023",
    "maintenance_logs", "servers_by_country", "data_centers_with_both",
    "recent_server_maintenance", "never_maintained" }

\* the question also satisfies an analytic or a maintenance rule
AnalyticHit ==
  \E name \in AnalyticRules : Hits(app_rules(Strip(Lower(question))), name)

\* C24: the count rule comes first in the fixed order of the rules, so a
\* question that satisfies the count rule and a rule of a later category
\* (listing, location, largest or smallest, analytic, maintenance) gets the
\* count answer.
C24_CountRuleFirst == CountHit => reply.path = "count_data_centers"

\* the count rule wins against the listing, location, largest and smallest
\* rules, which follow it
C24_CountBeforeLookups ==
  (CountHit /\ ~AnalyticHit) => reply.path = "count_data_centers"

\* the listing rule wins against the location, largest and smallest rules
C24_ListingBeforeLookups ==
  ( /\ pcChat = "done"
    /\ front = "app"
    /\ Hits(app_rules(Strip(Lower(question))), "list_data_centers")
    /\ ~CountHit
    /\ ~AnalyticHit ) => reply.path = "list_data_centers"

---------------------------------------------------------------------------
(* C25                                                                     *)

\* the question holds no term of the database-relevance vocabulary
NoDbTerm ==
  \A i \in 1..Len(db_related_terms) :
    ~Contains(Lower(question), db_related_terms[i])

\* execute_rag_query was given a question that is neither a literal query
\* nor database-related
Conversational == Retrieval /\ NoDbTerm

\* C25: for a non-literal question without a term of the database-relevance
\* vocabulary no query is synthesized or executed (execute_query is never
\* called and nothing is written to the vector store), the result carries
\* no sql_query and empty sql_results, and the retrieval and the final
\* generation still run.
C25_ConversationalPlan ==
  Conversational =>
    /\ reply.rag.query_type = "rag"
    /\ CallsOf("execute_query") = {}
    /\ CallsOf("add_texts") = {}
    /\ \A i \in CallsOf("generate") :
         trace[i].prompt.template # "SQL_GENERATION_PROMPT"
    /\ vsDocs = reply.docsBefore
    /\ reply.rag.sql_query = PyNone
    /\ reply.rag.sql_results = << >>
    /\ CallsOf("similarity_search") = {1}
    /\ reply.rag.context = Retrieved
    /\ FinalGenerationRan

\* such a question answered over the top_k documents retrieved
C25_Witness ==
  /\ Conversational
  /\ Len(reply.rag.context) = top_k
  /\ FinalGenerationRan

\* such a question answered after the retrieval failed
C25_WitnessNoContext ==
  /\ Conversational
  /\ trace[1].raised
  /\ reply.rag.context = << >>
  /\ FinalGenerationRan

---------------------------------------------------------------------------
(* C26                                                                     *)

\* the texts of the extraction stages that apply to the response, in the
\* stated order: the body of a json fence, the body of any fence, the
\* widest {...} substring, the whole response
StageSeq(response) ==
  (IF Contains(response, <<"backtick","backtick","backtick","j","s","o","n">>)
   THEN <<Strip(BeforeFirst(SplitSecond(response, <<"backtick","backtick","backtick","j","s","o","n">>), <<"backtick","backtick","backtick">>))>>
   ELSE << >>)
    \o (IF Contains(response, <<"backtick","backtick","backtick">>)
        THEN <<Strip(SplitSecond(response, <<"backtick","backtick","backtick">>))>>
        ELSE << >>)
    \o (IF Find(response, <<"{">>) # 0 /\ RFind(response, <<"}">>) > Find(response, <<"{">>)
        THEN <<SubSeq(response, Find(response, <<"{">>), RFind(response, <<"}">>))>>
        ELSE << >>)
    \o <<response>>

\* the value of the first stage text that parses, None when none does
FirstParsed(ts) ==
  IF \E i \in 1..Len(ts) : JsonLoads(ts[i]).ok
  THEN JsonLoads(ts[CHOOSE i \in 1..Len(ts) :
                       /\ JsonLoads(ts[i]).ok
                       /\ \A j \in 1..(i - 1) : ~JsonLoads(ts[j]).ok]).value
  ELSE PyNone

\* C26: generate_structured_output tries its extraction stages in order
\* and returns the value of the first stage that parses; it returns None
\* only when parsing has failed at every stage, so a response whose fenced
\* block does not parse but which contains a parsable {...} substring yields
\* that mapping.
C26_StagesFallThrough ==
  llmOp = "generate_structured_output" =>
    llmOut.value = FirstParsed(StageSeq(ResponseOf(backend[1])))

\* the same for the responses in which the first applicable stage parses
\* or no stage does
C26_FirstStageDecides ==
  ( /\ llmOp = "generate_structured_output"
    /\ \/ JsonLoads(StageSeq(ResponseOf(backend[1]))[1]).ok
       \/ Unparsable(ResponseOf(backend[1])) ) =>
    llmOut.value = FirstParsed(StageSeq(ResponseOf(backend[1])))

---------------------------------------------------------------------------
(* C27                                                                     *)

\* process_question called a formatter
Formatted ==
  /\ pcChat = "done"
  /\ front = "processor"
  /\ reply.path # "default"

\* the query of the formatter matched no rows
NoRows == Formatted /\ ~trace[1].raised /\ dbRows = 0

\* the query of the formatter failed
QueryFailed == Formatted /\ trace[1].raised

\* the texts the formatters return for an empty result
NoneYetTexts ==
  { formatters[f].none[1] \o arg \o formatters[f].none[2] :
      f \in {g \in DOMAIN formatters : formatters[g].has_none},
      arg \in {<< >>, <<"U","b","u","n","t","u">>, <<"L","o","n","d","o","n">>, <<"2","0","2","3">>, <<"J","o","h","n"," ","D","o","e">>,
               <<"J","a","n","e"," ","S","m","i","t","h">>, <<"a","l","i","c","e"," ","c","o","o","p","e","r">>} }

\* C27: for every question type, when the query returns no rows
\* process_question returns the 'none yet' text of the formatter and raises
\* nothing, and when the query fails it returns the text that starts with
\* 'Sorry, I couldn't ' and raises nothing.
C27_EmptyIsNotAnError ==
  /\ NoRows => (~reply.raised /\ reply.value \in NoneYetTexts)
  /\ QueryFailed =>
       (~reply.raised /\ StartsWith(reply.value, <<"S","o","r","r","y",","," ","I"," ","c","o","u","l","d","n","'","t"," ">>))

\* the formatters whose method of QueryHandler tests (results is not None)
UncheckedFormatters ==
  { "_format_servers_with_os", "_format_empty_racks",
    "_format_network_devices_by_location",
    "_format_maintenance_by_technician",
    "_format_server_maintenance_by_year", "_format_data_centers_with_both",
    "_format_entities_without_maintenance" }

\* what the formatters do instead: of the three kinds of methods, one
\* raises for no rows and apologizes for a failure, one gives the 'none
\* yet' text for no rows and raises for a failure, and the most recent
\* maintenance apologizes in both cases
C27_ByKindOfMethod ==
  /\ (NoRows /\ reply.path \in UncheckedFormatters) =>
       (~reply.raised /\ reply.value \in NoneYetTexts)
  /\ (NoRows /\ reply.path \notin UncheckedFormatters
             /\ reply.path # "_format_most_recent_server_maintenance") =>
       reply.raised
  /\ (QueryFailed /\ reply.path \in UncheckedFormatters) => reply.raised
  /\ (QueryFailed /\ reply.path \notin UncheckedFormatters) =>
       (~reply.raised /\ StartsWith(reply.value, <<"S","o","r","r","y",","," ","I"," ","c","o","u","l","d","n","'","t"," ">>))
  /\ ((NoRows \/ QueryFailed)
        /\ reply.path = "_format_most_recent_server_maintenance") =>
       (~reply.raised /\ StartsWith(reply.value, <<"S","o","r","r","y",","," ","I"," ","c","o","u","l","d","n","'","t"," ">>))

---------------------------------------------------------------------------
(* C29                                                                     *)

\* the formatter that calls the method h of QueryHandler
FormatterOf(h) == CHOOSE f \in DOMAIN formatters : formatters[f].handler = h

\* the question is the one quoted in the docstring of the method h
AskedDocOf(h) ==
  /\ pcChat = "done"
  /\ front = "processor"
  /\ question = DocQuestion[h]

\* C29: each question quoted in the docstring of a method of QueryHandler
\* is routed by process_question to the formatter of that method.
C29_DocQuestionsRouted ==
  \A h \in DOMAIN DocQuestion : AskedDocOf(h) => reply.path = FormatterOf(h)

\* the methods whose docstring question reaches another formatter or none
MisroutedMethods ==
  { "get_servers_with_os", "get_network_devices_by_data_center",
    "find_network_devices_by_location", "get_server_maintenance_by_year",
    "get_entities_without_maintenance" }

\* the same for the other methods
C29_OtherDocQuestionsRouted ==
  \A h \in DOMAIN DocQuestion \ MisroutedMethods :
    AskedDocOf(h) => reply.path = FormatterOf(h)

---------------------------------------------------------------------------
(* C28                                                                     *)

\* the number of copies of the document d in docs
Copies(docs, d) == Cardinality({i \in 1..Len(docs) : docs[i] = d})

\* the last construction added the schema chunks and saved the index
Constructed ==
  /\ vsOut.op = "construct"
  /\ ~vsOut.raised

\* C28: the schema chunks are added only if the index does not hold them
\* already: after any number of constructions over the same index
\* directory the index holds exactly one copy of each schema chunk.
C28_SchemaAddedOnce ==
  Constructed =>
    \A i \in 1..Len(SchemaChunks) :
      /\ Copies(vsDocs, SchemaChunks[i]) = 1
      /\ Copies(vsDisk.docs, SchemaChunks[i]) = 1

\* every construction that succeeds appends one more copy of each chunk to
\* the store it loaded
C28_EveryConstructionAppends ==
  Constructed =>
    /\ vsDocs = vsOut.before \o SchemaChunks
    /\ vsDisk = DiskOk(vsDocs)

\* the first construction over an empty directory
C28_FirstConstruction ==
  (Constructed /\ vsOut.n = 1) =>
    \A i \in 1..Len(SchemaChunks) : Copies(vsDisk.docs, SchemaChunks[i]) = 1

---------------------------------------------------------------------------
(* C30                                                                     *)

\* the Flask application answered the message
Said(messages) ==
  /\ pcChat = "done"
  /\ front = "app"
  /\ question \in messages

\* C30: every entry of the greeting vocabulary and of the farewell
\* vocabulary, sent alone as the message in any letter case and with
\* whitespace around it, gets the canned greeting or farewell reply and
\* causes no database query.
C30_VocabularyAnswered ==
  /\ Said(GreetingMessages) => (reply.path = "greeting" /\ trace = << >>)
  /\ Said(FarewellMessages) => (reply.path = "farewell" /\ trace = << >>)

\* the same for the entries of at most three words, and no query for any
\* entry
C30_ShortEntriesAnswered ==
  /\ Said(GreetingMessages) => (reply.path = "greeting" /\ trace = << >>)
  /\ Said(FarewellMessages \ Spellings(<<"t","a","l","k"," ","t","o"," ","y","o","u"," ","l","a","t","e","r">>)) =>
       (reply.path = "farewell" /\ trace = << >>)
  /\ Said(Spellings(<<"t","a","l","k"," ","t","o"," ","y","o","u"," ","l","a","t","e","r">>)) =>
       (reply.path = "default" /\ trace = << >>)
=============================================================================
